---- MODULE Spec2Model ----
(***************************************************************************)
(* Position and outcome accounting of lumina-capital: the weighted-average *)
(* paper Position ledger (PaperTradesTracker), the FIFO lot engine         *)
(* (TradeOutcome / JsonTradeOutcomeAdapter), the performance aggregates    *)
(* and the simulated USDT balance, driven by the paper order path          *)
(* (BitgetTradingAdapter._paper_place_order).                              *)
(*                                                                         *)
(* Numbers.  Python floats are modelled exactly: a coin quantity is an     *)
(* integer number of quanta of 1/QtyScale coin, a price is an integer      *)
(* number of USDT, a USDT amount (quantity * price, P&L, balance) is an    *)
(* integer number of 1/QtyScale USDT, and a quotient (average entry price, *)
(* total cost after a sell, percentages, averages) is an exact fraction.   *)
(* Binary rounding of floats is not modelled.                              *)
(* Optional values: None is the empty tuple and a present value v is <<v>>.*)
(* Clock.  datetime.now() is a logical clock that every fill advances.  The *)
(* updated_at stamps of PositionPerformance and of the balance record, which *)
(* no code path reads back to decide anything, are left out of the records. *)
(***************************************************************************)
EXTENDS Integers, Sequences, FiniteSets, TLC

\* ------------------------------------------------------------------ bounds
\* simulated fills (paper orders) per behaviour
MaxFills == 3

\* lots closed per behaviour where the aggregate update is followed on its own
MaxCloses == 3

\* ------------------------------------------------------- program constants
\* quanta per coin: one quantum is 0.0005 coin
QtyScale == 2000
\* the 0.001 closing threshold of TradeOutcome.record_exit, in quanta
Tol == 2
\* PaperTradesTracker._save keeps the last 100 trades
HistoryKeep == 100

\* an absent value and a present one
None == <<>>
Some(v) == <<v>>

\* ------------------------------------------------------------------ inputs
Coins == {"BTC", "ETH"}
\* 0.0005, 1 and 2 coins
Quantities == {1, QtyScale, 2 * QtyScale}
Prices == {10, 20}
\* the orders the decision maker may place: whole-coin orders on BTC at every price,
\* a dust order on BTC and a unit order on ETH
Orders == (({"BTC"} \X (Quantities \ {1})) \X Prices)
              \cup {<<<<"BTC", 1>>, 10>>, <<<<"ETH", QtyScale>>, 10>>}
\* the order and the amounts used where the balance record is followed call by call
BalanceOrders == {<<<<"BTC", QtyScale>>, 10>>}
Amounts == {10 * QtyScale, 30 * QtyScale}
\* how far direct debits and credits may take current_balance from the real balance
MaxDrift == 40 * QtyScale
\* the processes that share one DynamoDB table
Procs == {1, 2}
\* the entries and exits placed where the table is followed request by request
StoreEntries == {<<<<"BTC", QtyScale>>, 10>>, <<<<"BTC", 2 * QtyScale>>, 10>>}
StoreExits == {<<<<"BTC", QtyScale>>, 20>>, <<<<"BTC", 3 * QtyScale>>, 20>>}
\* holding durations of the lots closed: datetime.now() may answer the exit with the
\* value it gave the entry
Durations == {0, 1, 3}
\* orders whose size is zero or negative: _paper_place_order takes float(size) as it is
InvalidOrders == {<<<<"BTC", 0>>, 10>>, <<<<"BTC", -QtyScale>>, 10>>}
\* real exchange USDT balances seen at reconciliation (1000 and 1500 USDT)
RealBalances == {1000 * QtyScale, 1500 * QtyScale}
\* real balances small enough for debits to exceed them (10, 20 and 30 USDT)
LedgerBalances == {10 * QtyScale, 20 * QtyScale, 30 * QtyScale}
\* the decisions of a cycle: buys of 1 coin at 10 and of 2 coins at 20, a sell, a
\* HOLD and a BUY without a quantity
Buy1 == [action |-> "buy", coin |-> "BTC", quantity |-> Some(QtyScale), price |-> 10]
Buy2 == [action |-> "buy", coin |-> "BTC", quantity |-> Some(2 * QtyScale), price |-> 20]
Decisions ==
    { Buy1, Buy2,
      [action |-> "sell", coin |-> "BTC", quantity |-> Some(QtyScale), price |-> 20],
      [action |-> "hold", coin |-> "BTC", quantity |-> None, price |-> 10],
      [action |-> "buy", coin |-> "BTC", quantity |-> None, price |-> 10] }
\* the decision lists handed to one cycle: one decision, or the buy of 1 coin and
\* another decision
DecisionLists == {<<d>> : d \in Decisions} \cup {<<Buy1, d>> : d \in Decisions}
\* real exchange USDT balances seen by get_portfolio (1 and 30 USDT)
CycleBalances == {QtyScale, 30 * QtyScale}

\* ----------------------------------------------------------------- helpers
Abs(x) == IF x < 0 THEN -x ELSE x
Min(a, b) == IF a <= b THEN a ELSE b
Max(a, b) == IF a >= b THEN a ELSE b
\* the element of a one-element set: binds an intermediate result once
Only(S) == CHOOSE x \in S : TRUE

RECURSIVE GCD(_, _)
GCD(a, b) == IF b = 0 THEN a ELSE GCD(b, a % b)

\* exact fractions in lowest terms with a positive denominator
Rat(n, d) == LET g == GCD(Abs(n), Abs(d))
                 s == IF d < 0 THEN -1 ELSE 1
             IN  [n |-> (s * n) \div g, d |-> (s * d) \div g]
RInt(k) == [n |-> k, d |-> 1]
RAdd(x, y) == Rat(x.n * y.d + y.n * x.d, x.d * y.d)
RSub(x, y) == Rat(x.n * y.d - y.n * x.d, x.d * y.d)
RMul(x, y) == LET a == Rat(x.n, y.d)
                  b == Rat(y.n, x.d)
              IN  [n |-> a.n * b.n, d |-> a.d * b.d]
RDiv(x, y) == RMul(x, Rat(y.d, y.n))
RLess(x, y) == x.n * y.d < y.n * x.d

\* ------------------------------------------------------------------- state
VARIABLES
    outcomes,         \* JsonTradeOutcomeAdapter._outcomes: the lots, in creation order
    position_perfs,   \* JsonTradeOutcomeAdapter._position_perfs: coin -> PositionPerformance
    portfolio_stats,  \* JsonTradeOutcomeAdapter._portfolio_stats
    positions,        \* PaperTradesTracker._positions: coin -> PaperPosition
    trade_history,    \* PaperTradesTracker._trade_history
    balance,          \* PaperTradesTracker._balance: None or <<record>>
    now,              \* the wall clock read by datetime.now()
    audit,            \* history variable: per lot, what the exits took from it
    result,           \* the last call: its arguments and what it returned
    fills,            \* number of paper orders placed
    table,            \* the OUTCOME items of the DynamoDB table, where the adapter's
                      \* calls are followed request by request
    procs,            \* per process, the call in flight on DynamoDBTradeOutcomeAdapter:
                      \* where it stands and its local variables
    backend           \* the TradeOutcomePort wired in: "json" (JsonTradeOutcomeAdapter,
                      \* the lots and aggregates are its fields) or "dynamodb"
                      \* (DynamoDBTradeOutcomeAdapter, they are the items of its table)

vars == <<outcomes, position_perfs, portfolio_stats, positions, trade_history,
          balance, now, audit, result, fills, table, procs, backend>>

OutcomeStatus == {"open", "closed", "partial"}

\* ------------------------------------------------------------ TradeOutcome
\* TradeOutcome.__post_init__
post_init(o) ==
    IF o.remaining_quantity = 0 /\ o.entry_quantity > 0
    THEN [o EXCEPT !.remaining_quantity = o.entry_quantity]
    ELSE o

\* the lot built by record_entry
NewOutcome(id, coin, price, quantity, ts) ==
    post_init([outcome_id |-> id, coin |-> coin,
               entry_price |-> price, entry_quantity |-> quantity, entry_timestamp |-> ts,
               exit_price |-> None, exit_quantity |-> None, exit_timestamp |-> None,
               realized_pnl |-> None, realized_pnl_pct |-> None,
               status |-> "open", remaining_quantity |-> quantity,
               holding_duration_hours |-> None])

\* the status rule at the end of TradeOutcome.record_exit
CloseRule(o, rem) ==
    IF rem <= Tol
    THEN [o EXCEPT !.status = "closed", !.remaining_quantity = 0]
    ELSE [o EXCEPT !.status = "partial", !.remaining_quantity = rem]

\* TradeOutcome.record_exit
Outcome_record_exit(o, exit_price, exit_quantity, ts) ==
    LET exit_value == exit_price * exit_quantity
        entry_value == o.entry_price * exit_quantity
        pct == IF o.entry_price > 0
               THEN RMul(RSub(Rat(exit_price, o.entry_price), RInt(1)), RInt(100))
               ELSE RInt(0)
        filled == [o EXCEPT !.exit_price = Some(exit_price),
                            !.exit_quantity = Some(exit_quantity),
                            !.exit_timestamp = Some(ts),
                            !.realized_pnl = Some(exit_value - entry_value),
                            !.realized_pnl_pct = Some(pct),
                            !.holding_duration_hours = Some(ts - o.entry_timestamp)]
    IN  CloseRule(filled, o.remaining_quantity - exit_quantity)

\* is_winner that takes a realized P&L of exactly 0 for a win
is_winner_zero_wins(o) == IF o.realized_pnl = None THEN FALSE ELSE o.realized_pnl[1] >= 0

\* TradeOutcome.is_winner
is_winner(o) == IF o.realized_pnl = None THEN FALSE ELSE o.realized_pnl[1] > 0

\* TradeOutcome.to_dict followed by TradeOutcome.from_dict
Truthy(opt) == IF opt = None THEN None ELSE IF opt[1] = 0 THEN None ELSE opt
from_dict(o) ==
    post_init([o EXCEPT !.exit_price = Truthy(o.exit_price),
                        !.exit_quantity = Truthy(o.exit_quantity),
                        !.holding_duration_hours = Truthy(o.holding_duration_hours)])

\* ----------------------------------------------------- PositionPerformance
NewPerformance(coin) ==
    [coin |-> coin, total_trades |-> 0, winning_trades |-> 0, losing_trades |-> 0,
     total_realized_pnl |-> 0, best_trade_pnl |-> 0, worst_trade_pnl |-> 0,
     avg_holding_duration_hours |-> RInt(0)]

\* PositionPerformance.update_from_outcome
update_from_outcome(perf, o) ==
    IF o.status # "closed" \/ o.realized_pnl = None THEN perf
    ELSE LET pnl == o.realized_pnl[1]
             n == perf.total_trades + 1
             dur == o.holding_duration_hours
             avg == IF dur # None /\ dur # Some(0)
                    THEN RDiv(RAdd(RMul(perf.avg_holding_duration_hours, RInt(n - 1)),
                                   RInt(dur[1])), RInt(n))
                    ELSE perf.avg_holding_duration_hours
         IN  [perf EXCEPT !.total_trades = n,
                          !.winning_trades = IF is_winner(o) THEN @ + 1 ELSE @,
                          !.losing_trades = IF is_winner(o) THEN @ ELSE @ + 1,
                          !.total_realized_pnl = @ + pnl,
                          !.best_trade_pnl = IF pnl > @ THEN pnl ELSE @,
                          !.worst_trade_pnl = IF pnl < @ THEN pnl ELSE @,
                          !.avg_holding_duration_hours = avg]

\* JsonTradeOutcomeAdapter._update_position_performance
update_position_performance(perfs, o) ==
    LET base == IF o.coin \in DOMAIN perfs THEN perfs[o.coin] ELSE NewPerformance(o.coin)
        upd == update_from_outcome(base, o)
    IN  [c \in DOMAIN perfs \cup {o.coin} |-> IF c = o.coin THEN upd ELSE perfs[c]]

\* ---------------------------------------------------------- PortfolioStats
NewPortfolioStats ==
    [total_trades |-> 0, winning_trades |-> 0, losing_trades |-> 0,
     total_realized_pnl |-> 0, largest_win |-> 0, largest_loss |-> 0,
     current_streak |-> 0, max_winning_streak |-> 0, max_losing_streak |-> 0,
     unique_coins_traded |-> 0, first_trade_at |-> None, last_trade_at |-> None]

\* stats_step whose streak never restarts: a win adds one, a loss takes one off
stats_step_no_reset(stats, o) ==
    LET win == is_winner(o)
        streak == IF win THEN stats.current_streak + 1 ELSE stats.current_streak - 1
        pnl == IF o.realized_pnl = None THEN 0 ELSE o.realized_pnl[1]
    IN  [stats EXCEPT
            !.total_trades = @ + 1,
            !.winning_trades = IF win THEN @ + 1 ELSE @,
            !.losing_trades = IF win THEN @ ELSE @ + 1,
            !.current_streak = streak,
            !.max_winning_streak = IF win THEN Max(@, streak) ELSE @,
            !.max_losing_streak = IF win THEN @ ELSE Max(@, Abs(streak)),
            !.total_realized_pnl = @ + pnl,
            !.largest_win = IF o.realized_pnl # None /\ pnl > @ THEN pnl ELSE @,
            !.largest_loss = IF o.realized_pnl # None /\ pnl < @ THEN pnl ELSE @,
            !.first_trade_at = IF o.exit_timestamp # None /\ @ = None THEN o.exit_timestamp ELSE @,
            !.last_trade_at = IF o.exit_timestamp # None THEN o.exit_timestamp ELSE @]

\* stats_step whose maxima are taken against the streak before the close
stats_step_stale_max(stats, o) ==
    LET win == is_winner(o)
        streak == IF win
                  THEN (IF stats.current_streak >= 0 THEN Max(1, stats.current_streak + 1) ELSE 1)
                  ELSE (IF stats.current_streak <= 0 THEN Min(-1, stats.current_streak - 1) ELSE -1)
        pnl == IF o.realized_pnl = None THEN 0 ELSE o.realized_pnl[1]
    IN  [stats EXCEPT
            !.total_trades = @ + 1,
            !.winning_trades = IF win THEN @ + 1 ELSE @,
            !.losing_trades = IF win THEN @ ELSE @ + 1,
            !.current_streak = streak,
            !.max_winning_streak = IF win THEN Max(@, stats.current_streak) ELSE @,
            !.max_losing_streak = IF win THEN @ ELSE Max(@, Abs(stats.current_streak)),
            !.total_realized_pnl = @ + pnl,
            !.largest_win = IF o.realized_pnl # None /\ pnl > @ THEN pnl ELSE @,
            !.largest_loss = IF o.realized_pnl # None /\ pnl < @ THEN pnl ELSE @,
            !.first_trade_at = IF o.exit_timestamp # None /\ @ = None THEN o.exit_timestamp ELSE @,
            !.last_trade_at = IF o.exit_timestamp # None THEN o.exit_timestamp ELSE @]

\* the counts, streaks, P&L and timestamps part of _update_portfolio_stats, which
\* recalculate_stats repeats inline
stats_step(stats, o) ==
    LET win == is_winner(o)
        streak == IF win
                  THEN (IF stats.current_streak >= 0 THEN Max(1, stats.current_streak + 1) ELSE 1)
                  ELSE (IF stats.current_streak <= 0 THEN Min(-1, stats.current_streak - 1) ELSE -1)
        pnl == IF o.realized_pnl = None THEN 0 ELSE o.realized_pnl[1]
    IN  [stats EXCEPT
            !.total_trades = @ + 1,
            !.winning_trades = IF win THEN @ + 1 ELSE @,
            !.losing_trades = IF win THEN @ ELSE @ + 1,
            !.current_streak = streak,
            !.max_winning_streak = IF win THEN Max(@, streak) ELSE @,
            !.max_losing_streak = IF win THEN @ ELSE Max(@, Abs(streak)),
            !.total_realized_pnl = @ + pnl,
            !.largest_win = IF o.realized_pnl # None /\ pnl > @ THEN pnl ELSE @,
            !.largest_loss = IF o.realized_pnl # None /\ pnl < @ THEN pnl ELSE @,
            !.first_trade_at = IF o.exit_timestamp # None /\ @ = None THEN o.exit_timestamp ELSE @,
            !.last_trade_at = IF o.exit_timestamp # None THEN o.exit_timestamp ELSE @]

\* JsonTradeOutcomeAdapter._update_portfolio_stats; perfs is _position_perfs after
\* the lot's own performance update
update_portfolio_stats(stats, o, perfs) ==
    [stats_step(stats, o) EXCEPT !.unique_coins_traded = Cardinality(DOMAIN perfs)]

\* DynamoDBTradeOutcomeAdapter._update_portfolio_stats: the same steps, without the
\* unique_coins_traded assignment
dynamodb_update_portfolio_stats(stats, o) == stats_step(stats, o)

\* ------------------------------------------------- JsonTradeOutcomeAdapter
RECURSIVE FilterOpen_any_coin(_, _, _)
\* FilterOpen without the coin test: an exit is matched against any asset's lots
FilterOpen_any_coin(outs, coin, i) ==
    IF i > Len(outs) THEN <<>>
    ELSE (IF outs[i].status \in {"open", "partial"} THEN <<i>> ELSE <<>>)
             \o FilterOpen_any_coin(outs, coin, i + 1)

RECURSIVE FilterOpen_any_status(_, _, _)
\* FilterOpen without the status test: CLOSED lots are matched again
FilterOpen_any_status(outs, coin, i) ==
    IF i > Len(outs) THEN <<>>
    ELSE (IF outs[i].coin = coin THEN <<i>> ELSE <<>>) \o FilterOpen_any_status(outs, coin, i + 1)

RECURSIVE FilterOpen(_, _, _)
\* the list comprehension of get_open_entries: indices of the coin's OPEN/PARTIAL lots
FilterOpen(outs, coin, i) ==
    IF i > Len(outs) THEN <<>>
    ELSE (IF outs[i].status \in {"open", "partial"} /\ outs[i].coin = coin
          THEN <<i>> ELSE <<>>) \o FilterOpen(outs, coin, i + 1)

RECURSIVE InsertByEntry(_, _, _)
InsertByEntry(outs, sorted, i) ==
    IF sorted = <<>> THEN <<i>>
    ELSE IF outs[Head(sorted)].entry_timestamp <= outs[i].entry_timestamp
         THEN <<Head(sorted)>> \o InsertByEntry(outs, Tail(sorted), i)
         ELSE <<i>> \o sorted

RECURSIVE SortByEntry_newest_first(_, _)
\* SortByEntry with the order reversed: the newest lot is matched first
SortByEntry_newest_first(outs, idxs) ==
    IF idxs = <<>> THEN <<>>
    ELSE <<idxs[Len(idxs)]>> \o SortByEntry_newest_first(outs, SubSeq(idxs, 1, Len(idxs) - 1))

RECURSIVE SortByEntry(_, _)
\* entries.sort(key=entry_timestamp): a stable sort
SortByEntry(outs, idxs) ==
    IF idxs = <<>> THEN <<>>
    ELSE InsertByEntry(outs, SortByEntry(outs, SubSeq(idxs, 1, Len(idxs) - 1)), idxs[Len(idxs)])

\* JsonTradeOutcomeAdapter.get_open_entries(symbol)
get_open_entries(outs, coin) == SortByEntry(outs, FilterOpen(outs, coin, 1))

\* ExitQty without the min: a lot is charged the whole quantity still to exit
ExitQty_no_min(entry, remaining_to_exit) == remaining_to_exit

\* how much of a lot one pass of the matching loop closes
ExitQty(entry, remaining_to_exit) == Min(entry.remaining_quantity, remaining_to_exit)

RECURSIVE ExitLoop_every_exit(_, _, _)
\* ExitLoop that updates the aggregates on every exit, PARTIAL ones included
ExitLoop_every_exit(st, entries, price) ==
    IF entries = <<>> \/ st.remaining_to_exit <= 0 THEN st
    ELSE LET i == Head(entries)
             entry == st.outcomes[i]
             exit_qty == ExitQty(entry, st.remaining_to_exit)
             ts == st.now + 1
             e2 == Outcome_record_exit(entry, price, exit_qty, ts)
             closed == TRUE
             perfs2 == IF closed THEN update_position_performance(st.perfs, e2)
                       ELSE st.perfs
             stats2 == IF ~closed THEN st.stats
                       ELSE IF backend = "json"
                            THEN update_portfolio_stats(st.stats, e2, perfs2)
                            ELSE dynamodb_update_portfolio_stats(st.stats, e2)
         IN  ExitLoop_every_exit([outcomes |-> [st.outcomes EXCEPT ![i] = e2],
                       perfs |-> perfs2,
                       stats |-> stats2,
                       audit |-> [st.audit EXCEPT ![i] =
                                     [consumed |-> @.consumed + exit_qty,
                                      cum_pnl |-> @.cum_pnl + e2.realized_pnl[1],
                                      exits |-> @.exits + 1]],
                       closed_outcomes |-> Append(st.closed_outcomes, i),
                       remaining_to_exit |-> st.remaining_to_exit - exit_qty,
                       now |-> ts],
                      Tail(entries), price)

RECURSIVE ExitLoop(_, _, _)
\* the matching loop of JsonTradeOutcomeAdapter.record_exit; st carries the
\* adapter's fields, the clock, closed_outcomes and remaining_to_exit
ExitLoop(st, entries, price) ==
    IF entries = <<>> \/ st.remaining_to_exit <= 0 THEN st
    ELSE LET i == Head(entries)
             entry == st.outcomes[i]
             exit_qty == ExitQty(entry, st.remaining_to_exit)
             ts == st.now + 1
             e2 == Outcome_record_exit(entry, price, exit_qty, ts)
             closed == e2.status = "closed"
             perfs2 == IF closed THEN update_position_performance(st.perfs, e2)
                       ELSE st.perfs
             stats2 == IF ~closed THEN st.stats
                       ELSE IF backend = "json"
                            THEN update_portfolio_stats(st.stats, e2, perfs2)
                            ELSE dynamodb_update_portfolio_stats(st.stats, e2)
         IN  ExitLoop([outcomes |-> [st.outcomes EXCEPT ![i] = e2],
                       perfs |-> perfs2,
                       stats |-> stats2,
                       audit |-> [st.audit EXCEPT ![i] =
                                     [consumed |-> @.consumed + exit_qty,
                                      cum_pnl |-> @.cum_pnl + e2.realized_pnl[1],
                                      exits |-> @.exits + 1]],
                       closed_outcomes |-> Append(st.closed_outcomes, i),
                       remaining_to_exit |-> st.remaining_to_exit - exit_qty,
                       now |-> ts],
                      Tail(entries), price)

\* JsonTradeOutcomeAdapter.record_exit: the adapter state after the call, with the
\* returned list in closed_outcomes
record_exit(outs, perfs, stats, aud, clock, coin, price, quantity) ==
    ExitLoop([outcomes |-> outs, perfs |-> perfs, stats |-> stats, audit |-> aud,
              closed_outcomes |-> <<>>, remaining_to_exit |-> quantity, now |-> clock],
             get_open_entries(outs, coin), price)

\* JsonTradeOutcomeAdapter.record_entry
record_entry(outs, coin, price, quantity, ts) ==
    Append(outs, NewOutcome(Len(outs) + 1, coin, price, quantity, ts))

RECURSIVE FilterClosed(_, _)
\* indices of the CLOSED lots, in list order
FilterClosed(outs, i) ==
    IF i > Len(outs) THEN <<>>
    ELSE (IF outs[i].status = "closed" THEN <<i>> ELSE <<>>) \o FilterClosed(outs, i + 1)

\* the sort key "x.exit_timestamp or datetime.min"
ExitKey(o) == IF o.exit_timestamp = None THEN -1 ELSE o.exit_timestamp[1]

RECURSIVE InsertByExit(_, _, _)
InsertByExit(outs, sorted, i) ==
    IF sorted = <<>> THEN <<i>>
    ELSE IF ExitKey(outs[Head(sorted)]) <= ExitKey(outs[i])
         THEN <<Head(sorted)>> \o InsertByExit(outs, Tail(sorted), i)
         ELSE <<i>> \o sorted

RECURSIVE SortByExit(_, _)
\* closed.sort(key=exit_timestamp): a stable sort
SortByExit(outs, idxs) ==
    IF idxs = <<>> THEN <<>>
    ELSE InsertByExit(outs, SortByExit(outs, SubSeq(idxs, 1, Len(idxs) - 1)), idxs[Len(idxs)])

RECURSIVE RebuildLoop(_, _, _)
\* the replay loop of JsonTradeOutcomeAdapter.recalculate_stats
RebuildLoop(st, outs, closed) ==
    IF closed = <<>> THEN st
    ELSE LET o == outs[Head(closed)]
         IN  RebuildLoop([perfs |-> update_position_performance(st.perfs, o),
                          stats |-> stats_step(st.stats, o),
                          unique_coins |-> st.unique_coins \cup {o.coin}],
                         outs, Tail(closed))

\* JsonTradeOutcomeAdapter.recalculate_stats: the aggregates after the call
recalculate_stats(outs) ==
    LET st == RebuildLoop([perfs |-> [c \in {} |-> NewPerformance(c)],
                           stats |-> NewPortfolioStats,
                           unique_coins |-> {}],
                          outs, SortByExit(outs, FilterClosed(outs, 1)))
    IN  [st EXCEPT !.stats = [@ EXCEPT !.unique_coins_traded = Cardinality(st.unique_coins)]]

\* JsonTradeOutcomeAdapter._save then _load: what a restart of the process reads back
load_outcomes(outs) == [i \in 1..Len(outs) |-> from_dict(outs[i])]

\* DynamoDBTradeOutcomeAdapter.recalculate_stats: the closed lots are scanned and
\* read through from_dict, every rebuilt performance and the rebuilt stats are put;
\* no POSITION_PERF item is deleted
dynamodb_recalculate_stats(outs, perfs) ==
    LET st == recalculate_stats(load_outcomes(outs))
    IN  [st EXCEPT !.perfs = [c \in DOMAIN perfs \cup DOMAIN st.perfs |->
                                 IF c \in DOMAIN st.perfs THEN st.perfs[c] ELSE perfs[c]]]

\* ------------------------------------------------------ PaperTradesTracker
\* deduct_usdt that opens a record when there is none
deduct_usdt_autoinit(bal, amount) ==
    IF bal = None THEN Some([initial_balance |-> 0, current_balance |-> 0 - amount,
                             last_known_real_balance |-> 0])
    ELSE Some([bal[1] EXCEPT !.current_balance = @ - amount])

\* deduct_usdt that refuses a debit the balance does not cover
deduct_usdt_checked(bal, amount) ==
    IF bal = None THEN bal
    ELSE IF bal[1].current_balance < amount THEN bal
    ELSE Some([bal[1] EXCEPT !.current_balance = @ - amount])

\* PaperTradesTracker.deduct_usdt
deduct_usdt(bal, amount) ==
    IF bal = None THEN bal
    ELSE Some([bal[1] EXCEPT !.current_balance = @ - amount])

\* PaperTradesTracker.add_usdt
add_usdt(bal, amount) ==
    IF bal = None THEN bal
    ELSE Some([bal[1] EXCEPT !.current_balance = @ + amount])

\* BuyPosition that takes the price of the latest buy as the average
BuyPosition_latest_price(pos, coin, quantity, price, ts) ==
    IF coin \in DOMAIN pos
    THEN [coin |-> coin, quantity |-> pos[coin].quantity + quantity,
          avg_entry_price |-> RInt(price),
          total_cost |-> RAdd(pos[coin].total_cost, RInt(quantity * price)),
          created_at |-> pos[coin].created_at, updated_at |-> ts]
    ELSE [coin |-> coin, quantity |-> quantity, avg_entry_price |-> RInt(price),
          total_cost |-> RInt(quantity * price), created_at |-> ts, updated_at |-> ts]

\* the Position written by PaperTradesTracker.record_buy
BuyPosition(pos, coin, quantity, price, ts) ==
    IF coin \in DOMAIN pos
    THEN LET existing == pos[coin]
             new_total_cost == RAdd(existing.total_cost, RInt(quantity * price))
             new_quantity == existing.quantity + quantity
             new_avg_price == IF new_quantity > 0
                              THEN RDiv(new_total_cost, RInt(new_quantity))
                              ELSE RInt(0)
         IN  [coin |-> coin, quantity |-> new_quantity, avg_entry_price |-> new_avg_price,
              total_cost |-> new_total_cost, created_at |-> existing.created_at,
              updated_at |-> ts]
    ELSE [coin |-> coin, quantity |-> quantity, avg_entry_price |-> RInt(price),
          total_cost |-> RInt(quantity * price), created_at |-> ts, updated_at |-> ts]

\* PaperTradesTracker.record_buy: the positions after the call
record_buy(pos, coin, quantity, price, ts) ==
    [c \in DOMAIN pos \cup {coin} |->
        IF c = coin THEN BuyPosition(pos, coin, quantity, price, ts) ELSE pos[c]]

\* SellPosition that spreads the old cost over the quantity left
SellPosition_reaverage(existing, new_quantity, ts) ==
    [existing EXCEPT !.quantity = new_quantity,
                     !.avg_entry_price = RDiv(existing.total_cost, RInt(new_quantity)),
                     !.updated_at = ts]

\* the Position left by a sell that does not close it
SellPosition(existing, new_quantity, ts) ==
    [existing EXCEPT !.quantity = new_quantity,
                     !.total_cost = RMul(RInt(new_quantity), existing.avg_entry_price),
                     !.updated_at = ts]

\* PaperTradesTracker.record_sell for a coin that has a Position: the positions
\* after the call
record_sell(pos, coin, quantity, ts) ==
    LET existing == pos[coin]
        new_quantity == existing.quantity - quantity
    IN  IF new_quantity <= 0
        THEN [c \in DOMAIN pos \ {coin} |-> pos[c]]
        ELSE [pos EXCEPT ![coin] = SellPosition(existing, new_quantity, ts)]

\* the trade_history entries appended by record_buy and record_sell
BuyTrade(coin, quantity, price, ts) ==
    [type |-> "buy", coin |-> coin, quantity |-> quantity, price |-> price,
     realized_pnl |-> None, timestamp |-> ts]
SellTrade(existing, coin, quantity, price, ts) ==
    [type |-> "sell", coin |-> coin, quantity |-> quantity, price |-> price,
     realized_pnl |-> Some(RMul(RSub(RInt(price), existing.avg_entry_price), RInt(quantity))),
     timestamp |-> ts]

\* PaperTradesTracker._save then _load: the history a restart reads back
load_history(h) ==
    IF Len(h) > HistoryKeep THEN SubSeq(h, Len(h) - HistoryKeep + 1, Len(h)) ELSE h

\* the record written by PaperTradesTracker.initialize_balance
NewBalance(real_balance) ==
    Some([initial_balance |-> real_balance, current_balance |-> real_balance,
          last_known_real_balance |-> real_balance])

\* ------------------------------------------------------------------ actions
\* a process with no call in flight
Idle ==
    [pc |-> "idle", op |-> "none", coin |-> "", price |-> 0, remaining_to_exit |-> 0,
     entries |-> <<>>, k |-> 1, entry |-> None, exit_qty |-> 0, found |-> <<>>,
     perf |-> None, stats |-> None, closed_outcomes |-> <<>>,
     faulted |-> FALSE, raised |-> FALSE, snapshot |-> None, expect |-> {}]

InitFields ==
    /\ outcomes = <<>>
    /\ position_perfs = [c \in {} |-> NewPerformance(c)]
    /\ portfolio_stats = NewPortfolioStats
    /\ positions = [c \in {} |-> 0]
    /\ trade_history = <<>>
    /\ balance = None
    /\ now = 0
    /\ audit = <<>>
    /\ result = [op |-> "init", coin |-> "", quantity |-> 0, price |-> 0,
                 position |-> None, closed_outcomes |-> <<>>, real_balance |-> 0,
                 value |-> 0]
    /\ fills = 0
    /\ table = {}
    /\ procs = [p \in Procs |-> Idle]

\* the state after construction with the JSON lot store
Init == InitFields /\ backend = "json"

\* the state after construction with the DynamoDB lot store, on an empty table
InitDynamo == InitFields /\ backend = "dynamodb"

\* BitgetTradingAdapter._paper_place_order, side "buy", filled at exec_price > 0:
\* PaperTradesTracker.record_buy, then JsonTradeOutcomeAdapter.record_entry
PaperBuy(coin, quantity, price) ==
    /\ fills < MaxFills
    /\ positions' = record_buy(positions, coin, quantity, price, now + 1)
    /\ balance' = deduct_usdt(balance, quantity * price)
    /\ trade_history' = Append(trade_history, BuyTrade(coin, quantity, price, now + 1))
    /\ outcomes' = record_entry(outcomes, coin, price, quantity, now + 2)
    /\ audit' = Append(audit, [consumed |-> 0, cum_pnl |-> 0, exits |-> 0])
    /\ now' = now + 2
    /\ result' = [op |-> "buy", coin |-> coin, quantity |-> quantity, price |-> price,
                  position |-> Some(positions'[coin]), closed_outcomes |-> <<>>,
                  real_balance |-> 0, value |-> 0]
    /\ fills' = fills + 1
    /\ UNCHANGED <<position_perfs, portfolio_stats, table, procs, backend>>

\* BitgetTradingAdapter._paper_place_order, side "sell", filled at exec_price > 0:
\* PaperTradesTracker.record_sell, then JsonTradeOutcomeAdapter.record_exit
PaperSell(coin, quantity, price) ==
    /\ fills < MaxFills
    /\ IF coin \in DOMAIN positions
       THEN /\ positions' = record_sell(positions, coin, quantity, now + 1)
            /\ balance' = add_usdt(balance, quantity * price)
            /\ trade_history' = Append(trade_history,
                                   SellTrade(positions[coin], coin, quantity, price, now + 1))
       ELSE UNCHANGED <<positions, balance, trade_history>>
    /\ LET st == record_exit(outcomes, position_perfs, portfolio_stats, audit,
                             now + 1, coin, price, quantity)
       IN  /\ outcomes' = st.outcomes
           /\ position_perfs' = st.perfs
           /\ portfolio_stats' = st.stats
           /\ audit' = st.audit
           /\ now' = st.now
           /\ result' = [op |-> "sell", coin |-> coin, quantity |-> quantity,
                         price |-> price,
                         position |-> IF coin \in DOMAIN positions'
                                      THEN Some(positions'[coin]) ELSE None,
                         closed_outcomes |-> st.closed_outcomes, real_balance |-> 0,
                         value |-> 0]
    /\ fills' = fills + 1
    /\ UNCHANGED <<table, procs, backend>>

\* a restart of the process: PaperTradesTracker.__init__ and
\* JsonTradeOutcomeAdapter.__init__ read back what the last call saved
Reload ==
    /\ outcomes' = load_outcomes(outcomes)
    /\ trade_history' = load_history(trade_history)
    /\ UNCHANGED <<position_perfs, portfolio_stats, positions, balance, now, audit,
                   result, fills, table, procs, backend>>

\* get_paper_usdt_balance that sets the balance to the real one on a deposit
GetPaperUsdtBalance_overwrite(current_real_balance) ==
    /\ IF balance = None
       THEN /\ balance' = NewBalance(current_real_balance)
            /\ result' = [result EXCEPT !.op = "reconcile",
                                        !.real_balance = current_real_balance,
                                        !.value = current_real_balance]
       ELSE IF current_real_balance > balance[1].last_known_real_balance
       THEN LET deposit_amount == current_real_balance - balance[1].last_known_real_balance
                current_balance == current_real_balance
            IN  /\ balance' = Some([balance[1] EXCEPT
                                      !.current_balance = current_balance,
                                      !.last_known_real_balance = current_real_balance])
                /\ result' = [result EXCEPT !.op = "reconcile",
                                            !.real_balance = current_real_balance,
                                            !.value = current_balance]
       ELSE /\ UNCHANGED balance
            /\ result' = [result EXCEPT !.op = "reconcile",
                                        !.real_balance = current_real_balance,
                                        !.value = balance[1].current_balance]
    /\ UNCHANGED now
    /\ UNCHANGED <<outcomes, position_perfs, portfolio_stats, positions, trade_history,
                   audit, fills, table, procs, backend>>

\* get_paper_usdt_balance that follows the real balance down as well as up
GetPaperUsdtBalance_tracks_real(current_real_balance) ==
    /\ IF balance = None
       THEN /\ balance' = NewBalance(current_real_balance)
            /\ result' = [result EXCEPT !.op = "reconcile",
                                        !.real_balance = current_real_balance,
                                        !.value = current_real_balance]
       ELSE IF current_real_balance > balance[1].last_known_real_balance
       THEN LET deposit_amount == current_real_balance - balance[1].last_known_real_balance
                current_balance == balance[1].current_balance + deposit_amount
            IN  /\ balance' = Some([balance[1] EXCEPT
                                      !.current_balance = current_balance,
                                      !.last_known_real_balance = current_real_balance])
                /\ result' = [result EXCEPT !.op = "reconcile",
                                            !.real_balance = current_real_balance,
                                            !.value = current_balance]
       ELSE LET current_balance == balance[1].current_balance
                                       - (balance[1].last_known_real_balance - current_real_balance)
            IN  /\ balance' = Some([balance[1] EXCEPT
                                      !.current_balance = current_balance,
                                      !.last_known_real_balance = current_real_balance])
                /\ result' = [result EXCEPT !.op = "reconcile",
                                            !.real_balance = current_real_balance,
                                            !.value = current_balance]
    /\ UNCHANGED now
    /\ UNCHANGED <<outcomes, position_perfs, portfolio_stats, positions, trade_history,
                   audit, fills, table, procs, backend>>

\* get_paper_usdt_balance that lowers last_known_real_balance when the real balance
\* dips
GetPaperUsdtBalance_lowers_mark(current_real_balance) ==
    /\ IF balance = None
       THEN /\ balance' = NewBalance(current_real_balance)
            /\ result' = [result EXCEPT !.op = "reconcile",
                                        !.real_balance = current_real_balance,
                                        !.value = current_real_balance]
       ELSE LET deposit_amount == Max(0, current_real_balance
                                            - balance[1].last_known_real_balance)
                current_balance == balance[1].current_balance + deposit_amount
            IN  /\ balance' = Some([balance[1] EXCEPT
                                      !.current_balance = current_balance,
                                      !.last_known_real_balance = current_real_balance])
                /\ result' = [result EXCEPT !.op = "reconcile",
                                            !.real_balance = current_real_balance,
                                            !.value = current_balance]
    /\ UNCHANGED now
    /\ UNCHANGED <<outcomes, position_perfs, portfolio_stats, positions, trade_history,
                   audit, fills, table, procs, backend>>

\* PaperTradesTracker.get_paper_usdt_balance (which calls initialize_balance on
\* first access)
GetPaperUsdtBalance(current_real_balance) ==
    /\ IF balance = None
       THEN /\ balance' = NewBalance(current_real_balance)
            /\ result' = [result EXCEPT !.op = "reconcile",
                                        !.real_balance = current_real_balance,
                                        !.value = current_real_balance]
       ELSE IF current_real_balance > balance[1].last_known_real_balance
       THEN LET deposit_amount == current_real_balance - balance[1].last_known_real_balance
                current_balance == balance[1].current_balance + deposit_amount
            IN  /\ balance' = Some([balance[1] EXCEPT
                                      !.current_balance = current_balance,
                                      !.last_known_real_balance = current_real_balance])
                /\ result' = [result EXCEPT !.op = "reconcile",
                                            !.real_balance = current_real_balance,
                                            !.value = current_balance]
       ELSE /\ UNCHANGED balance
            /\ result' = [result EXCEPT !.op = "reconcile",
                                        !.real_balance = current_real_balance,
                                        !.value = balance[1].current_balance]
    /\ UNCHANGED now
    /\ UNCHANGED <<outcomes, position_perfs, portfolio_stats, positions, trade_history,
                   audit, fills, table, procs, backend>>

\* initialize_balance that seeds the record again whenever it is called
InitializeBalance_reseed(real_balance) ==
    /\ balance' = NewBalance(real_balance)
    /\ result' = [result EXCEPT !.op = "initialize", !.real_balance = real_balance,
                                !.value = 0]
    /\ UNCHANGED <<outcomes, position_perfs, portfolio_stats, positions, trade_history,
                   now, audit, fills, table, procs, backend>>

\* PaperTradesTracker.initialize_balance, called directly
InitializeBalance(real_balance) ==
    /\ IF balance # None
       THEN UNCHANGED balance
       ELSE balance' = NewBalance(real_balance)
    /\ result' = [result EXCEPT !.op = "initialize", !.real_balance = real_balance,
                                !.value = 0]
    /\ UNCHANGED <<outcomes, position_perfs, portfolio_stats, positions, trade_history,
                   now, audit, fills, table, procs, backend>>

\* PaperTradesTracker.deduct_usdt, called directly
DeductUsdt(amount) ==
    /\ balance # None =>
           Abs(balance[1].current_balance - amount - balance[1].last_known_real_balance)
               <= MaxDrift
    /\ balance' = deduct_usdt(balance, amount)
    /\ result' = [result EXCEPT !.op = "deduct", !.value = amount]
    /\ UNCHANGED <<outcomes, position_perfs, portfolio_stats, positions, trade_history,
                   now, audit, fills, table, procs, backend>>

\* PaperTradesTracker.add_usdt, called directly
AddUsdt(amount) ==
    /\ balance # None =>
           Abs(balance[1].current_balance + amount - balance[1].last_known_real_balance)
               <= MaxDrift
    /\ balance' = add_usdt(balance, amount)
    /\ result' = [result EXCEPT !.op = "add", !.value = amount]
    /\ UNCHANGED <<outcomes, position_perfs, portfolio_stats, positions, trade_history,
                   now, audit, fills, table, procs, backend>>

\* clear_all that also drops the balance record
ClearAll_drops_balance ==
    /\ positions' = [c \in {} |-> 0]
    /\ trade_history' = <<>>
    /\ balance' = None
    /\ result' = [result EXCEPT !.op = "clear_all", !.value = 0]
    /\ UNCHANGED <<outcomes, position_perfs, portfolio_stats, now, audit, fills,
                   table, procs, backend>>

\* PaperTradesTracker.clear_all
ClearAll ==
    /\ positions' = [c \in {} |-> 0]
    /\ trade_history' = <<>>
    /\ result' = [result EXCEPT !.op = "clear_all", !.value = 0]
    /\ UNCHANGED <<outcomes, position_perfs, portfolio_stats, balance, now, audit, fills,
                   table, procs, backend>>

\* recalculate_stats of the wired adapter (it returns nothing)
RecalculateStats ==
    /\ LET st == IF backend = "json" THEN recalculate_stats(outcomes)
                 ELSE dynamodb_recalculate_stats(outcomes, position_perfs)
       IN  /\ position_perfs' = st.perfs
           /\ portfolio_stats' = st.stats
    /\ UNCHANGED <<outcomes, positions, trade_history, balance, now, audit, result,
                   fills, table, procs, backend>>

\* aggregate records that do not come from the lots: a PositionPerformance and a
\* PortfolioStats that the storage held before (_load reads whatever the file
\* holds, get_position_performance and get_portfolio_stats whatever the table holds)
StalePerformance(coin) ==
    [NewPerformance(coin) EXCEPT !.total_trades = 7, !.winning_trades = 7,
                                 !.total_realized_pnl = 70, !.best_trade_pnl = 70]
StaleStats ==
    [NewPortfolioStats EXCEPT !.total_trades = 7, !.winning_trades = 7,
                              !.total_realized_pnl = 70, !.largest_win = 70,
                              !.current_streak = 7, !.max_winning_streak = 7,
                              !.unique_coins_traded = 7]
StaleAggregates(coin) ==
    /\ position_perfs' = [c \in DOMAIN position_perfs \cup {coin} |->
                             IF c = coin THEN StalePerformance(coin) ELSE position_perfs[c]]
    /\ portfolio_stats' = StaleStats
    /\ UNCHANGED <<outcomes, positions, trade_history, balance, now, audit, result,
                   fills, table, procs, backend>>

Next ==
    \/ \E o \in Orders : PaperBuy(o[1][1], o[1][2], o[2])
    \/ \E o \in Orders : PaperSell(o[1][1], o[1][2], o[2])
    \/ Reload
    \/ \E r \in RealBalances : GetPaperUsdtBalance(r)
    \/ RecalculateStats

\* every operation, restarts included
Spec == Init /\ [][Next]_vars

NextCalls ==
    \/ \E o \in Orders : PaperBuy(o[1][1], o[1][2], o[2])
    \/ \E o \in Orders : PaperSell(o[1][1], o[1][2], o[2])
    \/ \E r \in RealBalances : GetPaperUsdtBalance(r)
    \/ RecalculateStats

\* one process lifetime: the calls on the adapters, without a restart
SpecCalls == Init /\ [][NextCalls]_vars

\* the same calls against the DynamoDB lot store
SpecDynamo == InitDynamo /\ [][NextCalls]_vars

NextInvalid ==
    \/ \E o \in Orders \cup InvalidOrders : PaperBuy(o[1][1], o[1][2], o[2])
    \/ \E o \in Orders \cup InvalidOrders : PaperSell(o[1][1], o[1][2], o[2])
    \/ \E r \in RealBalances : GetPaperUsdtBalance(r)

\* one process lifetime in which orders of any size are placed
SpecInvalid == Init /\ [][NextInvalid]_vars

\* ------------------------------------- DynamoDBTradeOutcomeAdapter, by request
\* the timestamp in an item's sort key: exit_timestamp or entry_timestamp
SkTime(o) == IF o.exit_timestamp # None THEN o.exit_timestamp[1] ELSE o.entry_timestamp

\* two items under one key "{status}#{timestamp}#{outcome_id}"
SameKey(x, y) ==
    x.coin = y.coin /\ x.status = y.status /\ SkTime(x) = SkTime(y)
        /\ x.outcome_id = y.outcome_id

\* table.put_item: the item replaces the one stored under its key
put_item(items, item) == {o \in items : ~SameKey(o, item)} \cup {item}

RECURSIVE SortBySk(_)
\* a query answers in sort-key order
SortBySk(S) ==
    IF S = {} THEN <<>>
    ELSE LET o == CHOOSE x \in S : \A y \in S :
                     \/ SkTime(x) < SkTime(y)
                     \/ SkTime(x) = SkTime(y) /\ x.outcome_id <= y.outcome_id
         IN  <<o>> \o SortBySk(S \ {o})

\* outcomes.sort(key=entry_timestamp) on a list of lots
SortRecs(recs) ==
    LET idx == SortByEntry(recs, [i \in 1..Len(recs) |-> i])
    IN  [i \in 1..Len(recs) |-> recs[idx[i]]]

\* the ids of the coin's OPEN and PARTIAL items
OpenIds(items, coin) ==
    {o.outcome_id : o \in {x \in items : x.coin = coin /\ x.status \in {"open", "partial"}}}

\* the end of one pass of the loop of record_exit
NextPass(l) ==
    [l EXCEPT !.pc = "loop", !.closed_outcomes = Append(@, l.entry[1]),
              !.remaining_to_exit = @ - l.exit_qty, !.k = @ + 1]

\* DynamoDBTradeOutcomeAdapter.record_entry: one put_item
RecordEntry(p, coin, quantity, price) ==
    /\ procs[p].pc \in {"idle", "done"}
    /\ fills < MaxFills
    /\ LET o == NewOutcome(Len(audit) + 1, coin, price, quantity, now + 1)
       IN  /\ table' = put_item(table, o)
           /\ procs' = [procs EXCEPT ![p] =
                  [Idle EXCEPT !.pc = "done", !.op = "entry", !.coin = coin,
                               !.price = price, !.closed_outcomes = <<o>>]]
    /\ audit' = Append(audit, [consumed |-> 0, cum_pnl |-> 0, exits |-> 0])
    /\ now' = now + 1
    /\ fills' = fills + 1
    /\ UNCHANGED <<outcomes, position_perfs, portfolio_stats, positions, trade_history,
                   balance, result, backend>>

\* record_entry whose put_item raises ClientError: logged and raised again
RecordEntryFails(p, coin, quantity, price) ==
    /\ procs[p].pc \in {"idle", "done"}
    /\ fills < MaxFills
    /\ procs' = [procs EXCEPT ![p] =
           [Idle EXCEPT !.pc = "done", !.op = "entry", !.coin = coin, !.price = price,
                        !.faulted = TRUE, !.raised = TRUE,
                        !.snapshot = Some(<<table, position_perfs, portfolio_stats>>)]]
    /\ now' = now + 1
    /\ fills' = fills + 1
    /\ UNCHANGED <<outcomes, position_perfs, portfolio_stats, positions, trade_history,
                   balance, audit, result, table, backend>>

\* record_exit is called: it starts with get_open_entries(symbol)
BeginExit(p, coin, quantity, price) ==
    /\ procs[p].pc \in {"idle", "done"}
    /\ fills < MaxFills
    /\ procs' = [procs EXCEPT ![p] =
           [Idle EXCEPT !.pc = "query_open", !.op = "exit", !.coin = coin,
                        !.price = price, !.remaining_to_exit = quantity,
                        !.snapshot = Some(<<table, position_perfs, portfolio_stats>>)]]
    /\ fills' = fills + 1
    /\ UNCHANGED <<outcomes, position_perfs, portfolio_stats, positions, trade_history,
                   balance, now, audit, result, table, backend>>

\* get_open_entries(symbol) is called by a reader
BeginRead(p, coin) ==
    /\ procs[p].pc \in {"idle", "done"}
    /\ procs' = [procs EXCEPT ![p] =
           [Idle EXCEPT !.pc = "query_open", !.op = "read", !.coin = coin,
                        !.expect = OpenIds(table, coin)]]
    /\ UNCHANGED <<outcomes, position_perfs, portfolio_stats, positions, trade_history,
                   balance, now, audit, result, fills, table, backend>>

\* get_open_entries: the query for "open#" items, then the one for "partial#"
\* items, then the sort by entry timestamp
QueryStatus(p) ==
    /\ procs[p].pc \in {"query_open", "query_partial"}
    /\ LET l == procs[p]
           status == IF l.pc = "query_open" THEN "open" ELSE "partial"
           items == SortBySk({o \in table : o.coin = l.coin /\ o.status = status})
           got == l.entries \o [i \in 1..Len(items) |-> from_dict(items[i])]
       IN  procs' = [procs EXCEPT ![p] =
              IF l.pc = "query_open"
              THEN [l EXCEPT !.entries = got, !.pc = "query_partial"]
              ELSE [l EXCEPT !.entries = SortRecs(got),
                             !.pc = IF l.op = "read" THEN "done" ELSE "loop"]]
    /\ UNCHANGED <<outcomes, position_perfs, portfolio_stats, positions, trade_history,
                   balance, now, audit, result, fills, table, backend>>

\* record_exit: "if not open_entries: return []", the loop test, and the body up
\* to entry.record_exit(...)
LoopHead(p) ==
    /\ procs[p].pc = "loop"
    /\ LET l == procs[p]
       IN  IF l.k > Len(l.entries) \/ l.remaining_to_exit <= 0
           THEN /\ procs' = [procs EXCEPT ![p] = [l EXCEPT !.pc = "done"]]
                /\ UNCHANGED now
           ELSE LET entry == l.entries[l.k]
                    exit_qty == ExitQty(entry, l.remaining_to_exit)
                IN  /\ procs' = [procs EXCEPT ![p] =
                           [l EXCEPT !.pc = "uo_query", !.exit_qty = exit_qty,
                                     !.entry = Some(Outcome_record_exit(
                                                       entry, l.price, exit_qty, now + 1))]]
                    /\ now' = now + 1
    /\ UNCHANGED <<outcomes, position_perfs, portfolio_stats, positions, trade_history,
                   balance, audit, result, fills, table, backend>>

\* _update_outcome: the query for the items of this outcome_id
UoQuery(p) ==
    /\ procs[p].pc = "uo_query"
    /\ LET l == procs[p]
           found == SortBySk({o \in table : o.coin = l.coin
                                              /\ o.outcome_id = l.entry[1].outcome_id})
       IN  procs' = [procs EXCEPT ![p] =
              [l EXCEPT !.found = found,
                        !.pc = IF found = <<>> THEN "uo_put" ELSE "uo_delete"]]
    /\ UNCHANGED <<outcomes, position_perfs, portfolio_stats, positions, trade_history,
                   balance, now, audit, result, fills, table, backend>>

\* _update_outcome: delete_item of one old record
UoDelete(p) ==
    /\ procs[p].pc = "uo_delete"
    /\ LET l == procs[p]
       IN  /\ table' = {o \in table : ~SameKey(o, Head(l.found))}
           /\ procs' = [procs EXCEPT ![p] =
                  [l EXCEPT !.found = Tail(@),
                            !.pc = IF Tail(l.found) = <<>> THEN "uo_put" ELSE "uo_delete"]]
    /\ UNCHANGED <<outcomes, position_perfs, portfolio_stats, positions, trade_history,
                   balance, now, audit, result, fills, backend>>

\* _update_outcome: put_item of the new record; back in record_exit, a lot that is
\* not CLOSED ends the pass
UoPut(p) ==
    /\ procs[p].pc = "uo_put"
    /\ LET l == procs[p]
           e == l.entry[1]
       IN  /\ table' = put_item(table, e)
           /\ audit' = [audit EXCEPT ![e.outcome_id] =
                            [consumed |-> @.consumed + l.exit_qty,
                             cum_pnl |-> @.cum_pnl + e.realized_pnl[1],
                             exits |-> @.exits + 1]]
           /\ procs' = [procs EXCEPT ![p] =
                  IF e.status = "closed" THEN [l EXCEPT !.pc = "perf_get"]
                  ELSE NextPass(l)]
    /\ UNCHANGED <<outcomes, position_perfs, portfolio_stats, positions, trade_history,
                   balance, now, result, fills, backend>>

\* _update_position_performance: get_position_performance, then update_from_outcome
PerfGet(p) ==
    /\ procs[p].pc = "perf_get"
    /\ LET l == procs[p]
           perf == IF l.coin \in DOMAIN position_perfs THEN position_perfs[l.coin]
                   ELSE NewPerformance(l.coin)
       IN  procs' = [procs EXCEPT ![p] =
              [l EXCEPT !.perf = Some(update_from_outcome(perf, l.entry[1])),
                        !.pc = "perf_put"]]
    /\ UNCHANGED <<outcomes, position_perfs, portfolio_stats, positions, trade_history,
                   balance, now, audit, result, fills, table, backend>>

\* _update_position_performance: put_item of the POSITION_PERF item
PerfPut(p) ==
    /\ procs[p].pc = "perf_put"
    /\ LET l == procs[p]
       IN  /\ position_perfs' = [c \in DOMAIN position_perfs \cup {l.coin} |->
                                    IF c = l.coin THEN l.perf[1] ELSE position_perfs[c]]
           /\ procs' = [procs EXCEPT ![p] = [l EXCEPT !.pc = "stats_get"]]
    /\ UNCHANGED <<outcomes, portfolio_stats, positions, trade_history,
                   balance, now, audit, result, fills, table, backend>>

\* _update_portfolio_stats: get_portfolio_stats, then the update of the copy
StatsGet(p) ==
    /\ procs[p].pc = "stats_get"
    /\ LET l == procs[p]
       IN  procs' = [procs EXCEPT ![p] =
              [l EXCEPT !.stats = Some(dynamodb_update_portfolio_stats(
                                          portfolio_stats, l.entry[1])),
                        !.pc = "stats_put"]]
    /\ UNCHANGED <<outcomes, position_perfs, portfolio_stats, positions, trade_history,
                   balance, now, audit, result, fills, table, backend>>

\* _update_portfolio_stats: put_item of the PORTFOLIO_STATS item, which ends the pass
StatsPut(p) ==
    /\ procs[p].pc = "stats_put"
    /\ LET l == procs[p]
       IN  /\ portfolio_stats' = l.stats[1]
           /\ procs' = [procs EXCEPT ![p] = NextPass(l)]
    /\ UNCHANGED <<outcomes, position_perfs, positions, trade_history,
                   balance, now, audit, result, fills, table, backend>>

\* the request a call is about to make raises ClientError, and the except clause
\* around it runs: get_open_entries logs and returns what it has, unsorted;
\* _update_outcome logs and raises; get_position_performance returns None and
\* get_portfolio_stats a fresh PortfolioStats; the two aggregate puts only log
ClientError(p) ==
    /\ procs[p].pc \in {"query_open", "query_partial", "uo_query", "uo_delete", "uo_put",
                         "perf_get", "perf_put", "stats_get", "stats_put"}
    /\ LET l == [procs[p] EXCEPT !.faulted = TRUE]
       IN  procs' = [procs EXCEPT ![p] =
              CASE l.pc \in {"query_open", "query_partial"} ->
                       [l EXCEPT !.pc = IF l.op = "read" THEN "done" ELSE "loop"]
                [] l.pc \in {"uo_query", "uo_delete", "uo_put"} ->
                       [l EXCEPT !.pc = "done", !.raised = TRUE]
                [] l.pc = "perf_get" ->
                       [l EXCEPT !.perf = Some(update_from_outcome(
                                                  NewPerformance(l.coin), l.entry[1])),
                                 !.pc = "perf_put"]
                [] l.pc = "perf_put" -> [l EXCEPT !.pc = "stats_get"]
                [] l.pc = "stats_get" ->
                       [l EXCEPT !.stats = Some(dynamodb_update_portfolio_stats(
                                                   NewPortfolioStats, l.entry[1])),
                                 !.pc = "stats_put"]
                [] l.pc = "stats_put" -> NextPass(l)]
    /\ UNCHANGED <<outcomes, position_perfs, portfolio_stats, positions, trade_history,
                   balance, now, audit, result, fills, table, backend>>

\* the requests of the call that process p has in flight
Request(p) ==
    \/ QueryStatus(p)
    \/ LoopHead(p)
    \/ UoQuery(p)
    \/ UoDelete(p)
    \/ UoPut(p)
    \/ PerfGet(p)
    \/ PerfPut(p)
    \/ StatsGet(p)
    \/ StatsPut(p)

NextFaults ==
    \/ \E o \in StoreEntries : RecordEntry(1, o[1][1], o[1][2], o[2])
    \/ \E o \in StoreEntries : RecordEntryFails(1, o[1][1], o[1][2], o[2])
    \/ \E o \in StoreExits : BeginExit(1, o[1][1], o[1][2], o[2])
    \/ Request(1)
    \/ ClientError(1)

\* one process on the DynamoDB table, whose requests may fail
SpecFaults == InitDynamo /\ [][NextFaults]_vars

NextRace ==
    \/ \E p \in Procs, o \in StoreEntries : RecordEntry(p, o[1][1], o[1][2], o[2])
    \/ \E p \in Procs, o \in StoreExits : BeginExit(p, o[1][1], o[1][2], o[2])
    \/ \E p \in Procs : BeginRead(p, "BTC")
    \/ \E p \in Procs : Request(p)

\* two processes on one DynamoDB table, their requests interleaved; no request fails
SpecRace == InitDynamo /\ [][NextRace]_vars

\* a lot of one coin bought at entry_price and closed by one exit at exit_price,
\* held for dur
ClosedLot(id, entry_price, exit_price, t0, dur) ==
    Outcome_record_exit(NewOutcome(id, "BTC", entry_price, QtyScale, t0),
                        exit_price, QtyScale, t0 + dur)

\* record_entry and the record_exit that closes the new lot, with the holding
\* duration the clock gives: the lot is stored CLOSED and the aggregates updated
CloseLot(entry_price, exit_price, dur) ==
    /\ Len(outcomes) < MaxCloses
    /\ LET o == ClosedLot(Len(outcomes) + 1, entry_price, exit_price, now, dur)
           perfs2 == update_position_performance(position_perfs, o)
       IN  /\ outcomes' = Append(outcomes, o)
           /\ position_perfs' = perfs2
           /\ portfolio_stats' = update_portfolio_stats(portfolio_stats, o, perfs2)
           /\ audit' = Append(audit, [consumed |-> QtyScale,
                                      cum_pnl |-> o.realized_pnl[1], exits |-> 1])
    /\ now' = now + dur
    /\ UNCHANGED <<positions, trade_history, balance, result, fills, table, procs,
                   backend>>

NextPerf ==
    \E entry_price \in Prices, exit_price \in Prices, dur \in Durations :
        CloseLot(entry_price, exit_price, dur)

\* the aggregate update applied to lots of every P&L sign and holding duration
SpecPerf == Init /\ [][NextPerf]_vars

\* ------------------------------------------------------- execute_decisions
\* TradeDecision.is_actionable
is_actionable(d) == d.action \in {"buy", "sell"} /\ d.quantity # None

\* PaperTradesTracker.get_paper_usdt_balance as a function of the record: the record
\* it leaves and the balance it returns
get_paper_usdt_balance(bal, current_real_balance) ==
    IF bal = None
    THEN [balance |-> NewBalance(current_real_balance), value |-> current_real_balance]
    ELSE IF current_real_balance > bal[1].last_known_real_balance
    THEN LET deposit_amount == current_real_balance - bal[1].last_known_real_balance
             current_balance == bal[1].current_balance + deposit_amount
         IN  [balance |-> Some([bal[1] EXCEPT
                                   !.current_balance = current_balance,
                                   !.last_known_real_balance = current_real_balance]),
              value |-> current_balance]
    ELSE [balance |-> bal, value |-> bal[1].current_balance]

\* what the paper tracker and the lot store hold
TrackerState ==
    [positions |-> positions, balance |-> balance, trade_history |-> trade_history,
     outcomes |-> outcomes, perfs |-> position_perfs, stats |-> portfolio_stats,
     audit |-> audit, now |-> now, fills |-> fills]

\* BitgetTradingAdapter._paper_place_order filled at exec_price > 0, as a function of
\* the tracker state: record_buy then record_entry, or record_sell then record_exit
paper_place_order(s, side, coin, quantity, price) ==
    IF side = "buy"
    THEN [s EXCEPT
            !.positions = record_buy(s.positions, coin, quantity, price, s.now + 1),
            !.balance = deduct_usdt(s.balance, quantity * price),
            !.trade_history = Append(s.trade_history,
                                     BuyTrade(coin, quantity, price, s.now + 1)),
            !.outcomes = record_entry(s.outcomes, coin, price, quantity, s.now + 2),
            !.audit = Append(s.audit, [consumed |-> 0, cum_pnl |-> 0, exits |-> 0]),
            !.now = s.now + 2,
            !.fills = s.fills + 1]
    ELSE LET held == coin \in DOMAIN s.positions
         IN  Only({
             [positions |-> IF held THEN record_sell(s.positions, coin, quantity, s.now + 1)
                            ELSE s.positions,
              balance |-> IF held THEN add_usdt(s.balance, quantity * price)
                          ELSE s.balance,
              trade_history |-> IF held
                                THEN Append(s.trade_history,
                                            SellTrade(s.positions[coin], coin, quantity,
                                                      price, s.now + 1))
                                ELSE s.trade_history,
              outcomes |-> st.outcomes, perfs |-> st.perfs, stats |-> st.stats,
              audit |-> st.audit, now |-> st.now, fills |-> s.fills + 1] :
             st \in {record_exit(s.outcomes, s.perfs, s.stats, s.audit, s.now + 1,
                                 coin, price, quantity)} })

\* BitgetTradingAdapter.execute_decision in paper mode: the tracker state it leaves
\* and the TradeExecutionResult it returns
execute_decision(s, decision) ==
    IF decision.action = "hold"
    THEN [s |-> s, status |-> "no_action", success |-> TRUE]
    ELSE IF ~is_actionable(decision)
    THEN [s |-> s, status |-> "invalid", success |-> FALSE]
    ELSE [s |-> paper_place_order(s, decision.action, decision.coin,
                                  decision.quantity[1], decision.price),
          status |-> "filled", success |-> TRUE]

\* an entry of the list execute_decisions returns
ResultEntry(decision, executed, blocked, dry_run, status, success) ==
    [decision |-> decision, executed |-> executed, blocked |-> blocked,
     dry_run |-> dry_run, status |-> status, success |-> success]

\* the loop body that executes under dry_run as well
decision_step_ignores_dry_run(acc, decision, dry_run) ==
    Only({ [s |-> ex.s, available_usdt |-> acc.available_usdt,
            results |-> Append(acc.results,
                               ResultEntry(decision, TRUE, FALSE, FALSE,
                                           ex.status, ex.success))] :
           ex \in {execute_decision(acc.s, decision)} })

\* one pass of the loop of execute_decisions over an actionable decision. The
\* guardrail compares float(decision.quantity), a number of coins, with the USDT
\* available: both are carried here multiplied by QtyScale
decision_step(acc, decision, dry_run) ==
    LET required_amount == IF decision.quantity # None THEN decision.quantity[1] ELSE 0
        is_buy == decision.action = "buy"
    IN  IF is_buy /\ acc.available_usdt <= 0
        THEN [acc EXCEPT !.results = Append(@, ResultEntry(decision, FALSE, TRUE, FALSE,
                                                           "", FALSE))]
        ELSE IF is_buy /\ required_amount > acc.available_usdt
        THEN [acc EXCEPT !.results = Append(@, ResultEntry(decision, FALSE, TRUE, FALSE,
                                                           "", FALSE))]
        ELSE LET available_usdt == IF is_buy THEN acc.available_usdt - required_amount
                                   ELSE acc.available_usdt
             IN  IF dry_run
                 THEN [s |-> acc.s, available_usdt |-> available_usdt,
                       results |-> Append(acc.results,
                                          ResultEntry(decision, FALSE, FALSE, TRUE,
                                                      "", FALSE))]
                 ELSE Only({ [s |-> ex.s, available_usdt |-> available_usdt,
                              results |-> Append(acc.results,
                                                 ResultEntry(decision, TRUE, FALSE,
                                                             FALSE, ex.status,
                                                             ex.success))] :
                             ex \in {execute_decision(acc.s, decision)} })

\* the for loop of execute_decisions
RECURSIVE execute_loop(_, _, _)
execute_loop(acc, actionable, dry_run) ==
    IF actionable = <<>> THEN acc
    ELSE Only({ execute_loop(next, Tail(actionable), dry_run) :
                next \in {decision_step(acc, Head(actionable), dry_run)} })

\* DeepSeekManagerAgent.execute_decisions in paper mode; get_portfolio reads the
\* real USDT balance and reconciles the paper balance with it
ExecuteDecisions(decisions, dry_run, real_usdt_balance) ==
    LET actionable == SelectSeq(decisions, is_actionable)
    IN  /\ fills + Len(actionable) <= MaxFills
        /\ IF actionable = <<>>
           THEN /\ result' = [op |-> "execute_decisions", decisions |-> decisions,
                              dry_run |-> dry_run, real_balance |-> real_usdt_balance,
                              available_usdt |-> 0, results |-> <<>>]
                /\ UNCHANGED <<outcomes, position_perfs, portfolio_stats, positions,
                               trade_history, balance, now, audit, fills>>
           ELSE LET portfolio == get_paper_usdt_balance(balance, real_usdt_balance)
                IN  \E fin \in {execute_loop(
                                    [s |-> [TrackerState EXCEPT
                                               !.balance = portfolio.balance],
                                     available_usdt |-> portfolio.value,
                                     results |-> <<>>],
                                    actionable, dry_run)} :
                    /\ result' = [op |-> "execute_decisions", decisions |-> decisions,
                                  dry_run |-> dry_run,
                                  real_balance |-> real_usdt_balance,
                                  available_usdt |-> portfolio.value,
                                  results |-> fin.results]
                    /\ outcomes' = fin.s.outcomes
                    /\ position_perfs' = fin.s.perfs
                    /\ portfolio_stats' = fin.s.stats
                    /\ positions' = fin.s.positions
                    /\ trade_history' = fin.s.trade_history
                    /\ balance' = fin.s.balance
                    /\ now' = fin.s.now
                    /\ audit' = fin.s.audit
                    /\ fills' = fin.s.fills
        /\ UNCHANGED <<table, procs, backend>>

\* BitgetTradingAdapter.execute_decision called on one decision
ExecuteDecision(decision) ==
    \E ex \in {execute_decision(TrackerState, decision)} :
        /\ ex.s.fills <= MaxFills
        /\ result' = [op |-> "execute_decision", decisions |-> <<decision>>,
                      dry_run |-> FALSE, real_balance |-> 0, available_usdt |-> 0,
                      results |-> <<ResultEntry(decision, ex.status = "filled", FALSE,
                                                FALSE, ex.status, ex.success)>>]
        /\ outcomes' = ex.s.outcomes
        /\ position_perfs' = ex.s.perfs
        /\ portfolio_stats' = ex.s.stats
        /\ positions' = ex.s.positions
        /\ trade_history' = ex.s.trade_history
        /\ balance' = ex.s.balance
        /\ now' = ex.s.now
        /\ audit' = ex.s.audit
        /\ fills' = ex.s.fills
        /\ UNCHANGED <<table, procs, backend>>

NextExec ==
    \/ \E ds \in DecisionLists, dry_run \in BOOLEAN, r \in CycleBalances :
           ExecuteDecisions(ds, dry_run, r)
    \/ \E d \in Decisions : ExecuteDecision(d)

\* decision cycles in paper mode, and decisions handed to the trading port one by one
SpecExec == Init /\ [][NextExec]_vars

NextBalance ==
    \/ \E o \in BalanceOrders : PaperBuy(o[1][1], o[1][2], o[2])
    \/ \E o \in BalanceOrders : PaperSell(o[1][1], o[1][2], o[2])
    \/ \E r \in RealBalances : InitializeBalance(r)
    \/ \E r \in RealBalances : GetPaperUsdtBalance(r)
    \/ \E a \in Amounts : DeductUsdt(a)
    \/ \E a \in Amounts : AddUsdt(a)
    \/ ClearAll
    \/ Reload
    \/ RecalculateStats

\* the balance record followed call by call: fills, direct debits and credits,
\* initialization, reconciliation, clear_all, rebuilds and restarts
SpecBalance == Init /\ [][NextBalance]_vars

NextLedger ==
    \/ \E o \in BalanceOrders : PaperBuy(o[1][1], o[1][2], o[2])
    \/ \E o \in BalanceOrders : PaperSell(o[1][1], o[1][2], o[2])
    \/ \E r \in LedgerBalances : InitializeBalance(r)
    \/ \E r \in LedgerBalances : GetPaperUsdtBalance(r)
    \/ \E a \in Amounts : DeductUsdt(a)
    \/ \E a \in Amounts : AddUsdt(a)

\* the balance record on a small account: debits that exceed the balance, real
\* balances that rise, dip and rise again
SpecLedger == Init /\ [][NextLedger]_vars

\* DynamoDBPaperTradesAdapter._get_balance_record: the BALANCE item, or None when
\* there is none and when get_item raised ClientError
get_balance_record(item, read_ok) == IF read_ok THEN item ELSE None

\* the last call on the DynamoDB balance record: what it was given, what it
\* returned and which of its reads succeeded
BalanceCall(op, real_balance, value, reads) ==
    [op |-> op, real_balance |-> real_balance, value |-> value, reads |-> reads]

\* DynamoDBPaperTradesAdapter.initialize_balance
DynamoInitializeBalance(real_balance, read_ok) ==
    LET existing == get_balance_record(balance, read_ok)
    IN  /\ IF existing # None
           THEN UNCHANGED balance
           ELSE balance' = NewBalance(real_balance)
        /\ result' = BalanceCall("initialize", real_balance, 0, <<read_ok>>)
        /\ UNCHANGED <<outcomes, position_perfs, portfolio_stats, positions,
                       trade_history, now, audit, fills, table, procs, backend>>

\* DynamoDBPaperTradesAdapter.get_paper_usdt_balance; on a missing record it calls
\* initialize_balance, which reads the record again
DynamoGetPaperUsdtBalance(current_real_balance, read_ok, read_again_ok) ==
    LET record == get_balance_record(balance, read_ok)
    IN  /\ IF record = None
           THEN /\ IF get_balance_record(balance, read_again_ok) # None
                   THEN UNCHANGED balance
                   ELSE balance' = NewBalance(current_real_balance)
                /\ result' = BalanceCall("reconcile", current_real_balance,
                                         current_real_balance,
                                         <<read_ok, read_again_ok>>)
           ELSE LET reconciled == get_paper_usdt_balance(record, current_real_balance)
                IN  /\ balance' = reconciled.balance
                    /\ result' = BalanceCall("reconcile", current_real_balance,
                                             reconciled.value, <<read_ok>>)
        /\ UNCHANGED <<outcomes, position_perfs, portfolio_stats, positions,
                       trade_history, now, audit, fills, table, procs, backend>>

\* DynamoDBPaperTradesAdapter.deduct_usdt
DynamoDeductUsdt(amount, read_ok) ==
    LET record == get_balance_record(balance, read_ok)
    IN  /\ record # None =>
               Abs(record[1].current_balance - amount
                       - record[1].last_known_real_balance) <= MaxDrift
        /\ IF record = None
           THEN UNCHANGED balance
           ELSE balance' = deduct_usdt(record, amount)
        /\ result' = BalanceCall("deduct", 0, amount, <<read_ok>>)
        /\ UNCHANGED <<outcomes, position_perfs, portfolio_stats, positions,
                       trade_history, now, audit, fills, table, procs, backend>>

\* DynamoDBPaperTradesAdapter.add_usdt
DynamoAddUsdt(amount, read_ok) ==
    LET record == get_balance_record(balance, read_ok)
    IN  /\ record # None =>
               Abs(record[1].current_balance + amount
                       - record[1].last_known_real_balance) <= MaxDrift
        /\ IF record = None
           THEN UNCHANGED balance
           ELSE balance' = add_usdt(record, amount)
        /\ result' = BalanceCall("add", 0, amount, <<read_ok>>)
        /\ UNCHANGED <<outcomes, position_perfs, portfolio_stats, positions,
                       trade_history, now, audit, fills, table, procs, backend>>

NextBalanceStore ==
    \/ \E r \in LedgerBalances, read_ok \in BOOLEAN : DynamoInitializeBalance(r, read_ok)
    \/ \E r \in LedgerBalances, read_ok \in BOOLEAN, read_again_ok \in BOOLEAN :
           DynamoGetPaperUsdtBalance(r, read_ok, read_again_ok)
    \/ \E a \in Amounts, read_ok \in BOOLEAN : DynamoDeductUsdt(a, read_ok)
    \/ \E a \in Amounts, read_ok \in BOOLEAN : DynamoAddUsdt(a, read_ok)

\* the balance record kept in DynamoDB, with reads of it that may fail
SpecBalanceStore == InitDynamo /\ [][NextBalanceStore]_vars

InitAny == InitFields /\ backend \in {"json", "dynamodb"}

NextStale ==
    \/ \E o \in Orders : PaperBuy(o[1][1], o[1][2], o[2])
    \/ \E o \in Orders : PaperSell(o[1][1], o[1][2], o[2])
    \/ \E c \in Coins : StaleAggregates(c)
    \/ RecalculateStats

\* either lot store, fills and rebuilds, with aggregate records that went stale
SpecStale == InitAny /\ [][NextStale]_vars

\* ================================================================== claims
Lots == 1..Len(outcomes)
LotsOf(coin) == {i \in Lots : outcomes[i].coin = coin}

RECURSIVE SumOver(_, _)
\* the sum of f[i] over the finite set S
SumOver(f, S) ==
    IF S = {} THEN 0
    ELSE LET i == CHOOSE x \in S : TRUE IN f[i] + SumOver(f, S \ {i})

EntryQty == [i \in Lots |-> outcomes[i].entry_quantity]
Remaining == [i \in Lots |-> outcomes[i].remaining_quantity]
Consumed == [i \in Lots |-> audit[i].consumed]

\* C1  Conservation: for every asset, the entry quantities of its lots add up to
\* what remains in them plus what the exits consumed from them.
C1_Conservation ==
    \A c \in Coins :
        SumOver(EntryQty, LotsOf(c)) = SumOver(Remaining, LotsOf(c)) + SumOver(Consumed, LotsOf(c))

\* what a step took from lot i
Taken(i) == audit'[i].consumed - audit[i].consumed
IsOpen(i) == outcomes[i].status \in {"open", "partial"}
OpenLotsOf(coin) == {i \in LotsOf(coin) : IsOpen(i)}
SellStep == fills' = fills + 1 /\ result'.op = "sell"
BuyStep == fills' = fills + 1 /\ result'.op = "buy"

\* C2  FIFO order: whenever a record_exit takes quantity from a lot, every open lot
\* of the asset entered before it is CLOSED by the end of the call, and the lot's
\* realized P&L comes from its own entry price; a sell of exactly the oldest open
\* lot's quantity closes that lot and leaves every other lot untouched.
C2_FIFO ==
    [][ /\ \A j \in Lots : Taken(j) > 0 =>
              /\ \A i \in OpenLotsOf(outcomes[j].coin) :
                     outcomes[i].entry_timestamp < outcomes[j].entry_timestamp
                         => outcomes'[i].status = "closed"
              /\ outcomes'[j].realized_pnl =
                     Some((result'.price - outcomes[j].entry_price) * Taken(j))
        /\ \A i \in Lots :
              ( /\ SellStep
                /\ i \in OpenLotsOf(result'.coin)
                /\ \A k \in OpenLotsOf(result'.coin) :
                       outcomes[i].entry_timestamp <= outcomes[k].entry_timestamp
                /\ result'.quantity = outcomes[i].remaining_quantity )
              => /\ outcomes'[i].status = "closed"
                 /\ \A k \in Lots \ {i} : outcomes'[k] = outcomes[k]
      ]_vars

\* E1 (1 @ 10) then E2 (1 @ 20), sell 1: E1 closed on its own price, E2 untouched
C2_Witness ==
    /\ result.op = "sell"
    /\ \E i, j \in Lots :
          /\ i < j /\ outcomes[i].coin = outcomes[j].coin
          /\ result.closed_outcomes = <<i>>
          /\ outcomes[i].entry_price = 10 /\ outcomes[i].entry_quantity = QtyScale
          /\ outcomes[j].entry_price = 20 /\ outcomes[j].entry_quantity = QtyScale
          /\ outcomes[i].status = "closed"
          /\ outcomes[i].realized_pnl = Some((result.price - 10) * QtyScale)
          /\ outcomes[j].status = "open" /\ audit[j].exits = 0

\* C3  Lot invariant: 0 <= remaining <= entry; CLOSED iff remaining is zero (a
\* CLOSED lot is within the tolerance of zero, a lot at zero is CLOSED); PARTIAL
\* iff 0 < remaining < entry with an exit recorded; OPEN otherwise.
C3_LotInvariant ==
    \A i \in Lots :
        LET o == outcomes[i]
            partial == 0 < o.remaining_quantity /\ o.remaining_quantity < o.entry_quantity
                         /\ audit[i].exits > 0
        IN  /\ 0 <= o.remaining_quantity /\ o.remaining_quantity <= o.entry_quantity
            /\ o.status = "closed" => o.remaining_quantity <= Tol
            /\ o.remaining_quantity = 0 => o.status = "closed"
            /\ o.status = "partial" <=> partial
            /\ (o.remaining_quantity > Tol /\ ~partial) => o.status = "open"

\* C4  Lot state machine: a status moves only OPEN->PARTIAL, PARTIAL->PARTIAL,
\* PARTIAL->CLOSED or OPEN->CLOSED (or stays), on every step; and no record_entry,
\* record_exit or recalculate_stats changes any field of a CLOSED lot.
C4_LotStateMachine ==
    [][ /\ \A i \in Lots :
              \/ outcomes'[i].status = outcomes[i].status
              \/ <<outcomes[i].status, outcomes'[i].status>> \in
                     {<<"open", "partial">>, <<"partial", "closed">>, <<"open", "closed">>}
        /\ (fills' # fills \/ RecalculateStats) =>
              \A i \in Lots : outcomes[i].status = "closed" => outcomes'[i] = outcomes[i]
      ]_vars

\* a record_exit that ran after a lot of the same asset had been closed by an
\* earlier call, and did not touch it
C4_Witness ==
    /\ result.op = "sell"
    /\ \E i \in LotsOf(result.coin) :
          /\ outcomes[i].status = "closed"
          /\ audit[i].exits >= 1
          /\ \A k \in 1..Len(result.closed_outcomes) : result.closed_outcomes[k] # i

CumPnl == [i \in Lots |-> audit[i].cum_pnl]
ClosedLots == {i \in Lots : outcomes[i].status = "closed"}

\* C5  Partial-fill P&L: a closed lot contributes the sum of the P&L of all its
\* exits to the portfolio's and to its asset's cumulative realized P&L.
C5_PartialFillPnl ==
    /\ portfolio_stats.total_realized_pnl = SumOver(CumPnl, ClosedLots)
    /\ \A c \in DOMAIN position_perfs :
          position_perfs[c].total_realized_pnl = SumOver(CumPnl, ClosedLots \cap LotsOf(c))

PositionQty(c) == IF c \in DOMAIN positions THEN positions[c].quantity ELSE 0

\* C6  The two views agree on exposure: for every asset the Position quantity (0
\* without a Position) equals the remaining quantity of its OPEN and PARTIAL lots.
C6_ViewsAgree ==
    \A c \in Coins : PositionQty(c) = SumOver(Remaining, OpenLotsOf(c))

TakenBy == [i \in Lots |-> Taken(i)]

\* C7  Greedy matching and under-supply: a record_exit for q takes min(q, total
\* open remaining of the asset) in all, from each open lot the smaller of what the
\* lot holds and what the older lots left of q, and nothing from any other lot; it
\* creates no lot and rewrites no entry; and it returns exactly the lots it
\* touched, oldest first.
C7_GreedyMatching ==
    [][ SellStep =>
          LET c == result'.coin
              ret == result'.closed_outcomes
          IN  /\ SumOver(TakenBy, Lots) = Min(result'.quantity, SumOver(Remaining, OpenLotsOf(c)))
              /\ \A i \in Lots :
                    /\ 0 <= Taken(i) /\ Taken(i) <= outcomes[i].remaining_quantity
                    /\ Taken(i) > 0 => i \in OpenLotsOf(c)
                    /\ i \in OpenLotsOf(c) =>
                          Taken(i) = Min(outcomes[i].remaining_quantity,
                                         Max(0, result'.quantity - SumOver(Remaining,
                                             {k \in OpenLotsOf(c) : outcomes[k].entry_timestamp
                                                                     < outcomes[i].entry_timestamp})))
                    /\ outcomes'[i].entry_quantity = outcomes[i].entry_quantity
                    /\ outcomes'[i].entry_price = outcomes[i].entry_price
                    /\ outcomes'[i].entry_timestamp = outcomes[i].entry_timestamp
              /\ Len(outcomes') = Len(outcomes)
              /\ {ret[k] : k \in 1..Len(ret)} = {i \in Lots : Taken(i) > 0}
              /\ \A k \in 1..(Len(ret) - 1) :
                    outcomes[ret[k]].entry_timestamp < outcomes[ret[k + 1]].entry_timestamp
      ]_vars

\* a sell that asked for more than the asset's two open lots held
C7_Witness ==
    /\ result.op = "sell"
    /\ Len(result.closed_outcomes) = 2
    /\ Len(outcomes) = 2
    /\ audit[1].consumed + audit[2].consumed < result.quantity
    /\ audit[1].exits = 1 /\ audit[2].exits = 1

\* C8  Selling more than held is rejected: the Position, the simulated balance and
\* the trade history are left as they were.
C8_OversellRejected ==
    [][ ( /\ SellStep
          /\ result'.coin \in DOMAIN positions
          /\ result'.quantity > positions[result'.coin].quantity )
        => /\ positions' = positions
           /\ balance' = balance
           /\ trade_history' = trade_history
      ]_vars

\* C9  Cost basis: after every record_buy and record_sell total_cost equals
\* quantity x avg_entry_price; a buy of q at p creates (q, p, q x p) or adds q to
\* the quantity and q x p to the cost and sets the average to cost / quantity.
C9_CostBasis ==
    [][ /\ \A c \in DOMAIN positions' :
              positions'[c].total_cost =
                  RMul(RInt(positions'[c].quantity), positions'[c].avg_entry_price)
        /\ BuyStep =>
              LET c == result'.coin
                  q == result'.quantity
                  p == result'.price
                  new == positions'[c]
              IN  IF c \in DOMAIN positions
                  THEN /\ new.quantity = positions[c].quantity + q
                       /\ new.total_cost = RAdd(positions[c].total_cost, RInt(q * p))
                       /\ new.avg_entry_price = Rat(new.total_cost.n,
                                                    new.total_cost.d * new.quantity)
                  ELSE /\ new.quantity = q
                       /\ new.avg_entry_price = RInt(p)
                       /\ new.total_cost = RInt(q * p)
      ]_vars

\* buy 1 @ 10 then 1 @ 20: quantity 2, average 15, cost 30
C9_Witness ==
    /\ result.op = "buy" /\ result.price = 20
    /\ "BTC" \in DOMAIN positions
    /\ positions["BTC"].quantity = 2 * QtyScale
    /\ positions["BTC"].avg_entry_price = RInt(15)
    /\ positions["BTC"].total_cost = RInt(30 * QtyScale)

\* C10  A sell that leaves a Position keeps avg_entry_price and created_at whatever
\* the sell price, takes the sold amount off the quantity and sets total_cost to
\* the new quantity x avg_entry_price.
C10_SellKeepsBasis ==
    [][ ( /\ SellStep
          /\ result'.coin \in DOMAIN positions
          /\ result'.coin \in DOMAIN positions' )
        => LET old == positions[result'.coin]
               new == positions'[result'.coin]
           IN  /\ new.avg_entry_price = old.avg_entry_price
               /\ new.created_at = old.created_at
               /\ new.quantity = old.quantity - result'.quantity
               /\ new.total_cost = RMul(RInt(new.quantity), old.avg_entry_price)
      ]_vars

\* bought 1 @ 10 and 1 @ 20, sold 1 at a price other than the average: still 15
C10_Witness ==
    /\ result.op = "sell" /\ result.coin = "BTC" /\ result.quantity = QtyScale
    /\ result.price # 15
    /\ "BTC" \in DOMAIN positions
    /\ positions["BTC"].quantity = QtyScale
    /\ positions["BTC"].avg_entry_price = RInt(15)
    /\ positions["BTC"].total_cost = RInt(15 * QtyScale)

PerfTrades == [c \in DOMAIN position_perfs |-> position_perfs[c].total_trades]

\* C11  Aggregates are updated once per lot, when it closes: total_trades of the
\* portfolio equals the number of CLOSED lots and equals the sum of total_trades
\* over the per-asset performances.
C11_OncePerClose ==
    /\ portfolio_stats.total_trades = Cardinality(ClosedLots)
    /\ portfolio_stats.total_trades = SumOver(PerfTrades, DOMAIN position_perfs)

\* a lot closed by its second exit: the PARTIAL exit before it was not counted
C11_Witness ==
    /\ portfolio_stats.total_trades = 1
    /\ \E i \in Lots : outcomes[i].status = "closed" /\ audit[i].exits = 2

\* what recalculate_stats of the wired adapter would leave if it ran now
Rebuilt ==
    IF backend = "json" THEN recalculate_stats(outcomes)
    ELSE dynamodb_recalculate_stats(outcomes, position_perfs)

\* C12  Rebuild equivalence: at any point reached by record_entry and record_exit,
\* recalculate_stats yields a PortfolioStats and per-asset PositionPerformance
\* equal, field by field, to the ones maintained incrementally.
C12_RebuildEquivalence ==
    /\ Rebuilt.perfs = position_perfs
    /\ Rebuilt.stats = portfolio_stats

ClosedCoins == {outcomes[i].coin : i \in ClosedLots}
RealizedPnl == [i \in Lots |-> IF outcomes[i].realized_pnl = None THEN 0
                               ELSE outcomes[i].realized_pnl[1]]

\* what a second recalculate_stats would leave after the first
RebuiltTwice ==
    IF backend = "json" THEN recalculate_stats(outcomes)
    ELSE dynamodb_recalculate_stats(outcomes, Rebuilt.perfs)

\* C13  Rebuild resets before replaying: after recalculate_stats the aggregates are
\* those of the CLOSED lots alone (one performance per asset with a closed lot,
\* counts and P&L those of the closed lots), whatever was stored before; running
\* it again changes nothing; and it changes no lot.
C13_RebuildResets ==
    [][ RecalculateStats =>
          /\ outcomes' = outcomes
          /\ DOMAIN position_perfs' = ClosedCoins
          /\ \A c \in DOMAIN position_perfs' :
                /\ position_perfs'[c].total_trades = Cardinality(ClosedLots \cap LotsOf(c))
                /\ position_perfs'[c].total_realized_pnl =
                       SumOver(RealizedPnl, ClosedLots \cap LotsOf(c))
          /\ portfolio_stats'.total_trades = Cardinality(ClosedLots)
          /\ portfolio_stats'.total_realized_pnl = SumOver(RealizedPnl, ClosedLots)
          /\ portfolio_stats'.unique_coins_traded = Cardinality(ClosedCoins)
          /\ RebuiltTwice = Rebuilt
      ]_vars

\* the streak rule as stated, for one closed lot
StreakRule(streak, win) ==
    IF win THEN (IF streak >= 0 THEN streak + 1 ELSE 1)
    ELSE (IF streak <= 0 THEN streak - 1 ELSE -1)

RECURSIVE StreakOver(_, _)
\* the rule applied to the lots of ret that the step closed, in order
StreakOver(streak, ret) ==
    IF ret = <<>> THEN streak
    ELSE LET i == Head(ret)
         IN  IF outcomes'[i].status = "closed"
             THEN StreakOver(StreakRule(streak, outcomes'[i].realized_pnl[1] > 0), Tail(ret))
             ELSE StreakOver(streak, Tail(ret))

\* C14  Streak update rule: over the lots a record_exit closes, in order,
\* current_streak becomes streak + 1 on a win with streak >= 0, +1 on a win with
\* streak < 0, streak - 1 on a loss with streak <= 0 and -1 on a loss with
\* streak > 0; a fill that closes no lot leaves it alone.
C14_StreakRule ==
    [][ fills' = fills + 1 =>
          portfolio_stats'.current_streak =
              StreakOver(portfolio_stats.current_streak, result'.closed_outcomes)
      ]_vars

\* a sell that closed a winning lot and then a losing one: +1, then -1
C14_Witness ==
    /\ result.op = "sell"
    /\ Len(result.closed_outcomes) = 2
    /\ outcomes[result.closed_outcomes[1]].realized_pnl[1] > 0
    /\ outcomes[result.closed_outcomes[2]].realized_pnl[1] <= 0
    /\ outcomes[result.closed_outcomes[2]].status = "closed"
    /\ portfolio_stats.winning_trades = 1
    /\ portfolio_stats.current_streak = -1

RECURSIVE LongestRun(_, _, _, _)
\* the longest run of consecutive winning (w) or losing (~w) closes, reading the
\* closed lots in the order of their exit times 1..now
LongestRun(w, t, cur, best) ==
    IF t > now THEN best
    ELSE LET S == {i \in ClosedLots : outcomes[i].exit_timestamp = Some(t)}
         IN  IF S = {} THEN LongestRun(w, t + 1, cur, best)
             ELSE LET i == CHOOSE x \in S : TRUE
                      c2 == IF (RealizedPnl[i] > 0) = w THEN cur + 1 ELSE 0
                  IN  LongestRun(w, t + 1, c2, Max(best, c2))

StreakMaxima ==
    /\ portfolio_stats.max_winning_streak = LongestRun(TRUE, 1, 0, 0)
    /\ portfolio_stats.max_losing_streak = LongestRun(FALSE, 1, 0, 0)
    /\ portfolio_stats.max_winning_streak >= Max(portfolio_stats.current_streak, 0)
    /\ portfolio_stats.max_losing_streak >= Max(-portfolio_stats.current_streak, 0)
    /\ portfolio_stats.losing_trades = 0 =>
          /\ portfolio_stats.current_streak = portfolio_stats.total_trades
          /\ portfolio_stats.max_winning_streak >= portfolio_stats.total_trades

C16_DepositDetection ==
    [][ \A r \in RealBalances :
          ( /\ GetPaperUsdtBalance(r)
            /\ balance # None
            /\ r > balance[1].last_known_real_balance )
          => /\ balance' # None
             /\ balance'[1].current_balance =
                    balance[1].current_balance + (r - balance[1].last_known_real_balance)
             /\ balance'[1].last_known_real_balance = r
             /\ balance'[1].initial_balance = balance[1].initial_balance
             /\ result'.value = balance'[1].current_balance
      ]_vars

\* initialized at 1000, a buy of 20 USDT, then a reconcile with 1500: current 1480
C16_Witness ==
    /\ result.op = "reconcile" /\ result.real_balance = 1500 * QtyScale
    /\ balance # None
    /\ balance[1].initial_balance = 1000 * QtyScale
    /\ balance[1].last_known_real_balance = 1500 * QtyScale
    /\ balance[1].current_balance = 1480 * QtyScale
    /\ result.value = 1480 * QtyScale

\* C17  A real-balance decrease is ignored: a reconcile of an initialized balance
\* with a real balance not above last_known_real_balance changes no balance
\* field and returns current_balance.
C17_DecreaseIgnored ==
    [][ \A r \in RealBalances :
          ( /\ GetPaperUsdtBalance(r)
            /\ balance # None
            /\ r <= balance[1].last_known_real_balance )
          => /\ balance' = balance
             /\ result'.value = balance[1].current_balance
      ]_vars

\* initialized at 1000, reconciled with 1500, then with 1000: still 1500
C17_Witness ==
    /\ result.op = "reconcile" /\ result.real_balance = 1000 * QtyScale
    /\ balance # None
    /\ balance[1].initial_balance = 1000 * QtyScale
    /\ balance[1].last_known_real_balance = 1500 * QtyScale
    /\ balance[1].current_balance = 1500 * QtyScale
    /\ result.value = 1500 * QtyScale

\* C18  Invalid inputs are rejected before mutation: a fill whose quantity is not
\* positive leaves positions, lots, aggregates, balance and trade history as
\* they were.
C18_InvalidRejected ==
    [][ (fills' = fills + 1 /\ result'.quantity <= 0)
        => UNCHANGED <<positions, outcomes, position_perfs, portfolio_stats, balance,
                       trade_history>>
      ]_vars

\* C19  Missing state is a no-op: a record_sell for an asset with no Position
\* returns no position and changes no Position, balance or trade history; a
\* record_exit for an asset with no OPEN or PARTIAL lot returns an empty list and
\* changes no lot and no aggregate.
C19_MissingStateNoOp ==
    [][ /\ (SellStep /\ result'.coin \notin DOMAIN positions)
           => /\ result'.position = None
              /\ UNCHANGED <<positions, balance, trade_history>>
        /\ (SellStep /\ OpenLotsOf(result'.coin) = {})
           => /\ result'.closed_outcomes = <<>>
              /\ UNCHANGED <<outcomes, position_perfs, portfolio_stats>>
      ]_vars

\* BTC was bought, then ETH, which has neither Position nor lot, was sold
C19_Witness ==
    /\ result.op = "sell" /\ result.coin = "ETH"
    /\ result.position = None /\ result.closed_outcomes = <<>>
    /\ DOMAIN positions = {"BTC"}
    /\ Len(trade_history) = 1
    /\ Len(outcomes) = 1 /\ outcomes[1].coin = "BTC" /\ outcomes[1].status = "open"

\* C20  Position lifecycle: the first buy of an asset creates its Position, a sell
\* of the whole quantity removes it and returns no position, and every stored
\* Position has a quantity above zero.
C20_PositionLifecycle ==
    [][ /\ \A c \in DOMAIN positions' : positions'[c].quantity > 0
        /\ (BuyStep /\ result'.coin \notin DOMAIN positions)
           => /\ result'.coin \in DOMAIN positions'
              /\ result'.position = Some(positions'[result'.coin])
        /\ ( /\ SellStep
             /\ result'.coin \in DOMAIN positions
             /\ result'.quantity = positions[result'.coin].quantity )
           => /\ result'.coin \notin DOMAIN positions'
              /\ result'.position = None
      ]_vars

\* C21  initialize_balance(r) seeds initial_balance, current_balance and
\* last_known_real_balance to r when there is no balance record, and changes
\* nothing when there is one, whatever was applied to it since.
C21_InitializeOnce ==
    [][ result'.op = "initialize"
        => IF balance = None
           THEN balance' = Some([initial_balance |-> result'.real_balance,
                                 current_balance |-> result'.real_balance,
                                 last_known_real_balance |-> result'.real_balance])
           ELSE balance' = balance
      ]_vars

\* initialize_balance was called on a record that debits, credits or deposits had
\* moved away from its initial balance, with another real balance
C21_Witness ==
    /\ result.op = "initialize"
    /\ balance # None
    /\ balance[1].current_balance # balance[1].initial_balance
    /\ balance[1].last_known_real_balance # balance[1].initial_balance
    /\ result.real_balance # balance[1].initial_balance

\* C22  current_balance changes only through a debit, a credit or deposit
\* reconciliation: clear_all, a rebuild of the aggregates and a reload leave the
\* balance record as it is, a record that exists stays, and initial_balance never
\* changes once the record exists.
C22_BalanceFrame ==
    [][ /\ (ClearAll \/ Reload \/ RecalculateStats) => UNCHANGED balance
        /\ balance' # balance
           => \/ \E o \in BalanceOrders : PaperBuy(o[1][1], o[1][2], o[2])
              \/ \E o \in BalanceOrders : PaperSell(o[1][1], o[1][2], o[2])
              \/ \E a \in Amounts : DeductUsdt(a) \/ AddUsdt(a)
              \/ \E r \in RealBalances :
                    \/ GetPaperUsdtBalance(r)
                          /\ (balance # None => r > balance[1].last_known_real_balance)
                    \/ InitializeBalance(r) /\ balance = None
        /\ balance # None
           => /\ balance' # None
              /\ balance'[1].initial_balance = balance[1].initial_balance
      ]_vars

\* clear_all emptied the positions of a tracker whose balance a fill had debited
C22_Witness ==
    /\ result.op = "clear_all"
    /\ fills > 0
    /\ DOMAIN positions = {}
    /\ balance # None
    /\ balance[1].current_balance < balance[1].initial_balance

\* C23  Each simulated fill moves the balance exactly once: a filled buy debits
\* quantity x price from current_balance, a filled sell credits quantity x price.
C23_OneMovementPerFill ==
    [][ balance # None
        => /\ BuyStep
              => balance' = Some([balance[1] EXCEPT !.current_balance =
                                     @ - result'.quantity * result'.price])
           /\ SellStep
              => balance' = Some([balance[1] EXCEPT !.current_balance =
                                     @ + result'.quantity * result'.price])
      ]_vars

\* C24  deduct_usdt and add_usdt with no balance record are no-ops: no record is
\* created, directly or inside a fill, and the next reconcile initializes the
\* balance from the real balance it is given.
C24_MissingRecordNoOp ==
    [][ balance = None
        => /\ ( \/ \E a \in Amounts : DeductUsdt(a) \/ AddUsdt(a)
                \/ BuyStep \/ SellStep )
              => balance' = None
           /\ \A r \in RealBalances :
                 GetPaperUsdtBalance(r)
                    => /\ balance' = Some([initial_balance |-> r, current_balance |-> r,
                                           last_known_real_balance |-> r])
                       /\ result'.value = r
      ]_vars

\* a buy was filled before any balance record existed, and the reconcile that
\* followed seeded the record with the real balance, undiminished
C24_Witness ==
    /\ result.op = "reconcile"
    /\ Len(trade_history) > 0
    /\ trade_history[1].type = "buy"
    /\ balance # None
    /\ balance[1].current_balance = result.real_balance
    /\ balance[1].initial_balance = result.real_balance
    /\ result.value = result.real_balance

\* C30  Distinct-asset count: with the aggregates maintained close by close,
\* PortfolioStats.unique_coins_traded is the number of distinct assets that have
\* at least one CLOSED lot, in the JSON and in the DynamoDB backend.
C30_DistinctAssets ==
    portfolio_stats.unique_coins_traded = Cardinality(ClosedCoins)

\* C25  Lots are never physically deleted: a lot that is in the store is in the
\* store in every later state, with the same id, entry price, entry quantity and
\* entry timestamp, also while an update of it is under way and after one failed.
C25_LotsNeverDeleted ==
    [][ \A o \in table : \E o2 \in table' :
            /\ o2.outcome_id = o.outcome_id
            /\ o2.entry_price = o.entry_price
            /\ o2.entry_quantity = o.entry_quantity
            /\ o2.entry_timestamp = o.entry_timestamp
      ]_vars

\* process p's call returns or raises in this step
Ends(p) == procs[p].pc # "done" /\ procs'[p].pc = "done"

\* C26  Operations fail atomically: when a request fails part-way through a call,
\* no lot or aggregate change made by that call remains in the store.
C26_AtomicFailure ==
    [][ (Ends(1) /\ procs'[1].faulted)
        => <<table', position_perfs', portfolio_stats'>> = procs'[1].snapshot[1]
      ]_vars

\* C27  Persistence failures surface to the caller: a call during which a store
\* request failed raises instead of returning as if it had succeeded.
C27_FailuresSurface ==
    [][ (Ends(1) /\ procs'[1].faulted) => procs'[1].raised ]_vars

\* C28  No over-matching under interleaving: however two record_exit calls on one
\* asset interleave, what has been consumed from a lot never exceeds its entry
\* quantity.
C28_NoOverMatching ==
    \A o \in table : audit[o.outcome_id].consumed <= o.entry_quantity

\* the ids in the list a read returned
SeenIds(p) == {procs[p].entries[i].outcome_id : i \in 1..Len(procs[p].entries)}

\* the lots that are OPEN or PARTIAL in the table, or that a call has deleted and is
\* about to put back as OPEN or PARTIAL
LiveIds(items, ps) ==
    OpenIds(items, "BTC")
        \cup {ps[q].entry[1].outcome_id :
                 q \in {r \in Procs : /\ ps[r].pc \in {"uo_delete", "uo_put"}
                                      /\ ps[r].entry[1].status # "closed"}}

\* C29  No torn reads: a get_open_entries that runs while a record_exit is under
\* way returns every lot that was and stays OPEN or PARTIAL, and returns no lot
\* twice.
C29_NoTornReads ==
    [][ \A p \in Procs :
           (Ends(p) /\ procs'[p].op = "read")
           => /\ \A i, j \in 1..Len(procs'[p].entries) :
                    i # j => procs'[p].entries[i].outcome_id
                                # procs'[p].entries[j].outcome_id
              /\ \A id \in procs'[p].expect :
                    id \in LiveIds(table', procs') => id \in SeenIds(p)'
      ]_vars

\* the closed lots of one asset, and the realized P&L stored on each
ClosedLotsOf(coin) == {i \in ClosedLots : outcomes[i].coin = coin}
ClosedPnls(coin) == {RealizedPnl[i] : i \in ClosedLotsOf(coin)}

\* C31  Best/worst trade: for an asset with a closed lot, best_trade_pnl is the
\* largest and worst_trade_pnl the smallest realized P&L among its closed lots,
\* also when all of them are losses or all of them are wins.
C31_BestWorstTrade ==
    \A c \in DOMAIN position_perfs :
        ClosedLotsOf(c) # {}
        => /\ position_perfs[c].best_trade_pnl \in ClosedPnls(c)
           /\ position_perfs[c].worst_trade_pnl \in ClosedPnls(c)
           /\ \A x \in ClosedPnls(c) : /\ x <= position_perfs[c].best_trade_pnl
                                       /\ x >= position_perfs[c].worst_trade_pnl

\* C35  Persisting a lot and loading it back (to_dict then from_dict) yields a lot
\* equal to the original, in every status, also for a CLOSED lot whose
\* remaining_quantity is 0.
C35_RoundTrip ==
    \A i \in Lots : from_dict(outcomes[i]) = outcomes[i]

\* the closed lot that was closed last
LastClosed == CHOOSE i \in ClosedLots :
                  \A j \in ClosedLots : ExitKey(outcomes[j]) <= ExitKey(outcomes[i])

\* C38  Win/loss partition: in PortfolioStats and in every PositionPerformance
\* winning_trades + losing_trades = total_trades, the winners being the closed lots
\* with a realized P&L above 0; a lot closed with realized P&L exactly 0 is a
\* losing trade and moves current_streak as a loss.
C38_WinLossPartition ==
    /\ portfolio_stats.winning_trades + portfolio_stats.losing_trades
           = portfolio_stats.total_trades
    /\ portfolio_stats.winning_trades
           = Cardinality({i \in ClosedLots : RealizedPnl[i] > 0})
    /\ portfolio_stats.losing_trades
           = Cardinality({i \in ClosedLots : RealizedPnl[i] <= 0})
    /\ \A c \in DOMAIN position_perfs :
          /\ position_perfs[c].winning_trades + position_perfs[c].losing_trades
                 = position_perfs[c].total_trades
          /\ position_perfs[c].winning_trades
                 = Cardinality({i \in ClosedLotsOf(c) : RealizedPnl[i] > 0})
          /\ position_perfs[c].losing_trades
                 = Cardinality({i \in ClosedLotsOf(c) : RealizedPnl[i] <= 0})
    /\ ClosedLots # {}
       => IF RealizedPnl[LastClosed] > 0
          THEN portfolio_stats.current_streak >= 1
          ELSE portfolio_stats.current_streak <= -1

\* the lot closed last was bought and sold at the same price
C38_Witness ==
    /\ ClosedLots # {}
    /\ outcomes[LastClosed].realized_pnl = Some(0)
    /\ portfolio_stats.losing_trades >= 1
    /\ portfolio_stats.current_streak <= -1
    /\ position_perfs[outcomes[LastClosed].coin].losing_trades >= 1

\* the holding duration stored on each lot
HoldingDuration == [i \in Lots |-> IF outcomes[i].holding_duration_hours = None THEN 0
                                   ELSE outcomes[i].holding_duration_hours[1]]

\* C32  Running average holding duration: after each close,
\* avg_holding_duration_hours is the arithmetic mean of the holding durations of
\* the asset's closed lots, a lot held for 0 included.
C32_RunningAverage ==
    \A c \in DOMAIN position_perfs :
        RMul(position_perfs[c].avg_holding_duration_hours,
             RInt(position_perfs[c].total_trades))
            = RInt(SumOver(HoldingDuration, ClosedLotsOf(c)))

\* what a fill writes: the order count, the tracker's positions and history, the
\* lots and the aggregates
FillState ==
    <<fills, positions, trade_history, outcomes, position_perfs, portfolio_stats, audit>>

\* the entries of a result list that were handed to the trading port and placed
Executed(results) == {i \in 1..Len(results) : results[i].executed}

\* C33  Execution gating: execute_decisions hands a decision to the trading port
\* only when it is actionable (BUY or SELL with a quantity) and dry_run is false; a
\* HOLD, a decision without a quantity and every decision under dry_run place no
\* order and record no fill, and the trading port reports a HOLD as a successful
\* no-action.
C33_ExecutionGating ==
    [][ LET ds == result'.decisions
            results == result'.results
        IN  /\ result'.op = "execute_decisions"
               => /\ (result'.dry_run \/ SelectSeq(ds, is_actionable) = <<>>)
                     => /\ Executed(results) = {}
                        /\ UNCHANGED FillState
                  /\ \A i \in Executed(results) :
                        /\ is_actionable(results[i].decision)
                        /\ ~result'.dry_run
                  /\ \A i \in 1..Len(results) :
                        is_actionable(results[i].decision)
                  /\ fills' - fills = Cardinality(Executed(results))
            /\ result'.op = "execute_decision"
               => /\ ~is_actionable(ds[1]) => UNCHANGED FillState
                  /\ ds[1].action = "hold"
                     => /\ results[1].success
                        /\ results[1].status = "no_action"
                  /\ (ds[1].action # "hold" /\ ds[1].quantity = None)
                     => ~results[1].success
      ]_vars

\* a dry-run cycle on a tracker that holds a fill: its buy passed the guardrail and
\* was reported as a dry run, and no order was added
C33_Witness ==
    /\ result.op = "execute_decisions"
    /\ result.dry_run
    /\ Len(result.results) >= 1
    /\ result.results[1].decision.action = "buy"
    /\ result.results[1].dry_run
    /\ ~result.results[1].executed
    /\ fills = 1
    /\ Len(outcomes) = 1

\* the USDT cost of each buy a cycle executed
BuyCost(results) ==
    [i \in 1..Len(results) |->
        IF results[i].executed /\ results[i].decision.action = "buy"
        THEN results[i].decision.quantity[1] * results[i].decision.price
        ELSE 0]

\* C34  Buy guardrail: within one execute_decisions cycle a BUY is executed only if
\* its USDT cost (quantity x execution price) fits in the USDT still available
\* after the earlier buys of the cycle, so the buys of a cycle never drive the
\* simulated current_balance below zero.
C34_BuyGuardrail ==
    [][ (result'.op = "execute_decisions" /\ result'.results # <<>>)
        => LET results == result'.results
           IN  /\ \A i \in Executed(results) :
                     SumOver(BuyCost(results), 1..i) <= result'.available_usdt
               /\ (\A i \in 1..Len(results) : results[i].decision.action = "buy")
                  => balance'[1].current_balance >= 0
      ]_vars

\* the calls a step makes on the balance record: a debit or a credit of an amount
DebitCall(amount) ==
    \/ DeductUsdt(amount)
    \/ BuyStep /\ result'.quantity * result'.price = amount
CreditCall(amount) ==
    \/ AddUsdt(amount)
    \/ /\ SellStep
       /\ result'.coin \in DOMAIN positions
       /\ result'.quantity * result'.price = amount
LedgerAmounts == Amounts \cup {o[1][2] * o[2] : o \in BalanceOrders}

\* C36  Balance ledger: the record starts with current_balance = initial_balance =
\* last_known_real_balance; from then on initial_balance is fixed, every debit
\* lowers current_balance by its amount whatever the balance is, every credit
\* raises it by its amount, a detected deposit raises current_balance and
\* last_known_real_balance by the same amount, and nothing else moves either: so
\* current_balance = initial_balance + deposits - debits + credits and deposits =
\* last_known_real_balance - initial_balance in every state.
C36_LedgerEquation ==
    [][ /\ (balance = None /\ balance' # None)
           => /\ balance'[1].current_balance = balance'[1].initial_balance
              /\ balance'[1].last_known_real_balance = balance'[1].initial_balance
        /\ balance # None
           => LET delta == balance'[1].current_balance - balance[1].current_balance
                  deposit == balance'[1].last_known_real_balance
                                 - balance[1].last_known_real_balance
              IN  /\ balance' # None
                  /\ balance'[1].initial_balance = balance[1].initial_balance
                  /\ deposit >= 0
                  /\ \A a \in LedgerAmounts :
                        /\ DebitCall(a) => (delta = 0 - a /\ deposit = 0)
                        /\ CreditCall(a) => (delta = a /\ deposit = 0)
                  /\ (\A a \in LedgerAmounts : ~DebitCall(a) /\ ~CreditCall(a))
                     => delta = deposit
      ]_vars

\* a direct debit larger than the balance was applied: current_balance is negative
C36_Witness ==
    /\ result.op = "deduct"
    /\ balance # None
    /\ balance[1].current_balance < 0
    /\ balance[1].current_balance + result.value >= 0
    /\ balance[1].last_known_real_balance > balance[1].initial_balance

\* C37  last_known_real_balance never decreases: each reconcile leaves it at the
\* highest real balance observed so far, and after the real balance dipped, the
\* next reconcile credits only the part of the rise above that highest balance.
C37_HighWaterMark ==
    [][ balance # None
        => /\ balance' # None
           /\ balance'[1].last_known_real_balance >= balance[1].last_known_real_balance
           /\ \A r \in LedgerBalances :
                 GetPaperUsdtBalance(r)
                 => /\ balance'[1].last_known_real_balance
                           = Max(balance[1].last_known_real_balance, r)
                    /\ balance'[1].current_balance - balance[1].current_balance
                           = Max(0, r - balance[1].last_known_real_balance)
                    /\ ( /\ result.op = "reconcile"
                          /\ result.real_balance < balance[1].last_known_real_balance
                          /\ r > result.real_balance )
                       => balance'[1].current_balance - balance[1].current_balance
                              # r - result.real_balance
      ]_vars

\* the real balance had risen above the initial balance and then dipped: the
\* reconcile left last_known_real_balance above the real balance it was given
C37_Witness ==
    /\ result.op = "reconcile"
    /\ balance # None
    /\ result.real_balance < balance[1].last_known_real_balance
    /\ balance[1].initial_balance < balance[1].last_known_real_balance
    /\ result.value = balance[1].current_balance

\* C39  A failed read of the balance record is not mistaken for an absent record:
\* a reconcile or an initialize_balance during which a read of the record failed
\* leaves an existing record as it was.
C39_FailedReadKeepsRecord ==
    [][ ( /\ result'.op \in {"reconcile", "initialize"}
          /\ \E i \in DOMAIN result'.reads : ~result'.reads[i]
          /\ balance # None )
        => balance' = balance
      ]_vars
====
